---- MODULE Spec2Model ----
(***************************************************************************)
(* The orchestration engine of the AI task orchestrator:                   *)
(*   src/src/orchestrator.py        TaskOrchestrator                       *)
(*   src/src/core/file_watcher.py   TaskFileHandler / FileWatcher          *)
(*   src/src/bridges/claude_bridge.py  ClaudeBridge.execute_task           *)
(*                                                                         *)
(* One asyncio event loop runs everything, so the code between two points  *)
(* where a coroutine really suspends is one atomic step; every action      *)
(* below is such a stretch.  The optional Telegram interface is not        *)
(* configured (config.telegram.bot_token is empty).                        *)
(***************************************************************************)
EXTENDS Integers, Sequences, FiniteSets, TLC

\* ---------------------------------------------------------------- bounds
\* the clock of the debounce runs from 0 to MaxTime (ticks of 0.125 s)
MaxTime == 3
\* filesystem notifications delivered for one path
MaxNotes == 2
\* task documents the inbox directory can hold
NumDocs == 2
\* writes other programs make to the inbox directory after start()
MaxWrites == 1
\* attempts of one task the executor fails with a transient marker
MaxTransient == 1
\* largest configured config.validation.backoff_multiplier
MaxBackoffMult == 3

\* ------------------------------------------------------ program constants
\* config.system.max_concurrent_tasks: worker loops created by start()
MaxConcurrentTasks == 3
\* config.validation.max_retries
MaxRetries == 3
\* config.validation.backoff_multiplier
BackoffMultiplier == 2
\* retry_delay = 1.0, the base delay of process_task in seconds
BaseDelay == 1
\* jitter = random.uniform(0.75, 1.5), in quarters: 0.75, 1.0, 1.25, 1.5
Jitters == 3..6
\* TaskFileHandler._debounce_seconds = 0.25, in ticks of 0.125 s
DebounceSeconds == 2

Workers == 1..MaxConcurrentTasks
\* inbox paths tasks/<p>.task.md
Docs == 1..NumDocs
\* task ids a document can declare in its frontmatter
Ids == 1..NumDocs
\* Ids are interchangeable: the document at path p declares one of the
\* first p of them (two documents can still declare the same id)
IdsAt(p) == 1..p
\* a path inside tasks/processed/ (the archive directory)
ArchivedPath == 0
Paths == Docs \cup {ArchivedPath}

\* content of an inbox path: no file, a document that fails
\* validate_task_format, or a valid document declaring a task id
Absent == 0
Invalid == -1
Contents == {Absent, Invalid} \cup Ids
ContentsAt(p) == {Absent, Invalid} \cup IdsAt(p)
\* a document whose frontmatter is not a mapping (empty, or a plain
\* scalar): frontmatter.get of validate_task_format raises AttributeError
NotMapping == -2

VARIABLES
    running,             \* self.running
    files,               \* the inbox directory: path -> content
    processed_dir,       \* tasks/processed: set of <<task id, status>> file names
    state_json,          \* logs/state.json: the persisted pending set
    pending_files,       \* self._pending_files
    inflight_paths,      \* self._inflight_paths
    task_queue,          \* self.task_queue
    active_tasks,        \* self.active_tasks (keys)
    task_results,        \* self.task_results: id -> TaskResult
    task_cancel_events,  \* self._task_cancel_events: id -> "none" | "clear" | "set"
    running_exec_tasks,  \* self._running_exec_tasks: id -> worker owning the handle, 0 = no entry
    last_event_ts,       \* watcher: paths with a debounce timer armed
    processed_files,     \* TaskFileHandler.processed_files
    worker,              \* the worker loops, see IdleWorker
    fs_writes,           \* inbox writes made by other programs since start()
    backoff_mult,        \* backoff_mult of process_task: the clamped configured multiplier
    direct,              \* a process_task call made directly (as the unit tests do), see NotCalled
    watch,               \* the debounce of TaskFileHandler with its clock and timers, see Untimed
    pipe,                \* what one task leaves behind on its way through the pipeline, see NoTrace
    stopping,            \* self.worker_tasks and the progress of stop(), see NotStopping
    creation,            \* create_task_from_description calls and the documents they write, see NotCreating
    results_dir,         \* the files of config.system.results_dir, see EmptyResultsDir
    unit,                \* the result of one execution attempt and what process_task makes of it, see NoUnit
    writers,             \* the workers that finish tasks and write their artifacts, see NoWriters
    document             \* a task document handed to the parser and what the parser returned, see NoDocument

vars == <<running, files, processed_dir, state_json, pending_files, inflight_paths,
          task_queue, active_tasks, task_results, task_cancel_events,
          running_exec_tasks, last_event_ts, processed_files, worker, fs_writes,
          backoff_mult, direct, watch, pipe, stopping, creation, results_dir, unit, writers, document>>

\* ------------------------------------------------------------ TaskResult
\* errors is the errors list: "unit" stands for whatever the bridge
\* reported, the other two for the literal lists the orchestrator builds.
NoResult == [success |-> FALSE, errors |-> "unset", retries |-> 0, error_class |-> "unset"]
CancelledResult == [success |-> FALSE, errors |-> "cancelled", retries |-> 0, error_class |-> ""]
TimeoutResult == [success |-> FALSE, errors |-> "timeout after Ns", retries |-> 0, error_class |-> ""]
\* the TaskResult of `except Exception as e` of process_task: errors = [str(e)]
ExceptionResult == [success |-> FALSE, errors |-> "exception message", retries |-> 0, error_class |-> ""]

\* outcome of one bridge call: success, or an unsuccessful result whose
\* stdout+stderr does / does not contain a transient marker
UnitOutcomes == {"ok", "transient_marker", "no_marker"}

\* ---------------------------------------------------------- worker loop
\* pc: "not_started"  the worker task does not exist yet
\*     "idle"         awaiting task_queue.get()
\*     "waiting"      process_task awaits asyncio.wait(...)
\*     "teardown"     process_task awaits the exec_task it cancelled
\*     "backoff"      process_task awaits asyncio.sleep(delay)
\*     "returned"     process_task has returned `result`; the worker goes on
\*                    in the same step, so no state shows this value
\*     "exited"       the worker loop has left `while self.running`
\* exec: "none" | "running" | "cancelling" | "cancelled" | a member of UnitOutcomes
\* cancel_waiter, timeout_waiter: "none" | "pending" | "done";
\*     "done" is what asyncio.wait found in its done set when it returned
\* cancel_ev: the Event object process_task holds: "registry" (the one the
\*     registry maps the id to) or, once the registry entry is popped, the
\*     frozen value of the orphaned object: "orphan_clear" | "orphan_set";
\*     "absent" when the registry had no entry for the id (cancel_ev is None)
\* retry_delay: the local retry_delay, in seconds
\* branch: which arm of the if/elif/else after asyncio.wait ran
\* log: events emitted for the task the worker dequeued last
\* status: task.status of that task as the worker loop left it
IdleWorker ==
    [pc |-> "idle", path |-> 0, id |-> 0, attempt |-> 0, exec |-> "none",
     cancel_waiter |-> "none", timeout_waiter |-> "none", cancel_ev |-> "registry",
     branch |-> "none", retry_delay |-> 0, result |-> NoResult, log |-> <<>>,
     status |-> "none"]

\* A direct call of process_task: its frame (a record like a worker's),
\* the outcomes the executor gave it attempt by attempt, and the backoff
\* delays it slept, in quarters of a second.
NotCalled ==
    [call |-> [IdleWorker EXCEPT !.pc = "not_called"], calls |-> <<>>, slept |-> <<>>]

\* The debounce of TaskFileHandler in timed detail:
\*   now            time.time(), in ticks
\*   last_event_ts  self._last_event_ts: path -> time of its last accepted notification
\*   timers         the _maybe_process checks loop.call_later has scheduled:
\*                  [path, due, n], n numbering the notifications of the path
\*   notes          notifications delivered so far, per path
\*   first, last    times of the first and of the latest notification of each path
\*   calls          times _process_file handed each path to the callback
\*   puts           times a task of each path was put on the task queue
\* Untimed is its value where the watcher is modelled without a clock.
Untimed ==
    [now |-> 0,
     last_event_ts |-> [p \in Docs |-> 0],
     timers |-> {},
     notes |-> [p \in Docs |-> 0],
     first |-> [p \in Docs |-> 0],
     last |-> [p \in Docs |-> 0],
     calls |-> [p \in Docs |-> 0],
     puts |-> [p \in Docs |-> 0]]

\* Steps of the pipeline that can raise: the mediator's parse_task /
\* create_claude_prompt, summarize_result, the validation engine, every
\* write of logs/events.ndjson, the write of results/<id>.json, the write
\* of summaries/<id>_summary.txt, the write of results/index.json, the
\* write of logs/state.json, and the move of the source file.
FaultSites == {"mediator", "summarize", "validate", "events", "artifact",
               "summary_file", "index", "save_state", "archive"}

\* What the one task of the pipeline specification leaves behind:
\*   faults     the steps that raise in this run
\*   events     the lines logs/events.ndjson got for the task
\*   artifact   results/<id>.json: what it records, task_id 0 when
\*              there is no such file
\*   index      results/index.json[id]: 0 (no entry) or the id whose
\*              artifact file the entry points to
\*   returned   the value process_task returned
\*   last_unit  the TaskResult of the last attempt the executor finished
\*   attempts   execution attempts started
\*   status     task.status as the worker left it
\*   done       task_queue.task_done() calls
\* NoTrace is its value where the pipeline runs without faults.
NoTrace ==
    [faults |-> {}, events |-> <<>>,
     artifact |-> [task_id |-> 0, success |-> FALSE, retries |-> 0, error_class |-> ""],
     index |-> 0,
     returned |-> NoResult, last_unit |-> NoResult, attempts |-> 0,
     status |-> "pending", done |-> 0]

\* stop() and the list it works on:
\*   pc                not_called; stopping_watcher, the await of the
\*                     interface's and the watcher's stop; gathering, the
\*                     await of asyncio.gather; returned
\*   worker_tasks      self.worker_tasks
\*   cancel_requested  the worker tasks worker.cancel() reached and that
\*                     have not yet run since
\*   idle_calls        stop() calls that found the orchestrator not running
\*   loops             len(self.worker_tasks)
\*   idle_starts       start() calls that found the orchestrator running
\* NotStopping is its value after construction.
NotStopping ==
    [pc |-> "not_called", worker_tasks |-> {}, cancel_requested |-> {},
     idle_calls |-> 0, loops |-> 0, idle_starts |-> 0]

\* a faulty variant of WorkersAfterStart: start() without its guard
StartAlways(is_running, n) == n + MaxConcurrentTasks

\* len(self.worker_tasks) after start() found it at n: a running
\* orchestrator returns at once, else max_concurrent_tasks worker tasks
\* are created and appended
WorkersAfterStart(is_running, n) ==
    IF is_running THEN n ELSE n + MaxConcurrentTasks

\* create_task_from_description, one call per document i:
\*   pc         not_called, writing_tmp, replacing, fallback,
\*              writing_final, returned, raised
\*   caller     "loop": a coroutine of the orchestrator's event loop (the
\*              Telegram handlers); "process": another process (main.py
\*              create-sample)
\*   tmp        what .<task_id>.task.tmp holds: absent, partial, complete
\*   final      what <task_id>.task.md holds
\*   notified   the notifications the watcher's handler got, as
\*              <<kind, file name>>
\*   callbacks  what the document held each time the ingestion callback
\*              was invoked for it
\* NotCreating is its value while no call has been made.
NotCreating ==
    [i \in Docs |-> [pc |-> "not_called", caller |-> "none", tmp |-> "absent",
                     final |-> "absent", notified |-> {}, callbacks |-> <<>>]]

\* The results directory as the artifact writer and the context loader
\* see it: the JSON document each file <stem>.json holds, a function from
\* keys to values, or Missing.  The stems are the task ids and "index",
\* the index file; a task id is the free text of a document's `id`
\* field, so "index" is one.  JSON values are written as TLA+ strings:
\* "true", "false", "null", a list as "[]" or "[a.py]", a path by its stem.
TaskIds == {"t1", "t2", "index"}
Stems == TaskIds \cup {"index"}
Missing == [absent |-> "true"]
EmptyResultsDir == [stem \in Stems |-> Missing]

\* no worker holds a task
NoWriters ==
    [w \in Workers |->
        [task_id |-> "none", pc |-> "idle",
         result |-> [success |-> "false", files_modified |-> "[]"]]]

\* no document has been handed to the parser
NoDocument ==
    [pc |-> "none", frontmatter |-> <<>>, errors |-> <<>>,
     task |-> [type |-> "unset", priority |-> "unset"]]

\* a raw_stdout or raw_stderr that is None
NoneValue == <<"<None>">>

\* no attempt of process_task has returned from the bridge
NoUnit ==
    [pc |-> "idle", attempt |-> 0, retries |-> 0, error_class |-> "unset",
     result |-> [success |-> FALSE, raw_stdout |-> NoneValue, raw_stderr |-> NoneValue]]

\* ------------------------------------------- variants of the functions
NeverCancelledBeforeStart(ev) == FALSE

\* faulty variants of the pure functions below, to show what each
\* property depends on
\* retries counted as attempts
AttemptsAsRetries(attempt) == attempt
\* every failure classified transient
AllFailuresTransient(outcome) == IF outcome = "ok" THEN "none" ELSE "transient"
\* the retry decision without the max_retries limit
RetryWithoutLimit(error_class, attempt, success) ==
    error_class = "transient" /\ ~success
\* retry_delay += backoff_mult
AdditiveBackoff(retry_delay, mult) == retry_delay + mult
\* a save that writes an empty pending list
SaveNothing(pending) == {}

\* ------------------------------------------------------- pure functions
\* TaskOrchestrator._classify_error: "none" on success, else "transient"
\* when a marker occurs in stderr + stdout, else "fatal"
ClassifyError(outcome) ==
    IF outcome = "ok" THEN "none"
    ELSE IF outcome = "transient_marker" THEN "transient"
    ELSE "fatal"

\* the retry decision of process_task
ShouldRetry(error_class, attempt, success) ==
    error_class = "transient" /\ attempt <= MaxRetries /\ ~success

\* result.retries = attempt - 1
RetriesOf(attempt) == attempt - 1

\* backoff_mult = max(1, config.validation.backoff_multiplier)
ClampMult(configured) == IF configured < 1 THEN 1 ELSE configured

\* delay = retry_delay * jitter, in quarters of a second (jitter in quarters)
Delay(retry_delay, jitter) == retry_delay * jitter

\* retry_delay *= backoff_mult
NextRetryDelay(retry_delay, mult) == retry_delay * mult

\* the TaskResult the bridge produced, after error_class and retries are set
UnitResult(outcome, attempt) ==
    [success |-> outcome = "ok", errors |-> "unit",
     retries |-> RetriesOf(attempt), error_class |-> ClassifyError(outcome)]

\* asyncio.Event.is_set() of the Event object process_task holds
HeldEventSet(w) ==
    \/ worker[w].cancel_ev = "orphan_set"
    \/ /\ worker[w].cancel_ev = "registry"
       /\ task_cancel_events[worker[w].id] = "set"

\* `finally` of the wait cancels the helper waiters that are not done, and
\* the attempt is over: both handles are dropped
EndAttempt(wk) == [wk EXCEPT !.cancel_waiter = "none", !.timeout_waiter = "none"]

\* exec_task.cancel(): a task that is done is left alone
CancelExec(st) == IF st = "running" THEN "cancelling" ELSE st

ExecDone(st) == st \in UnitOutcomes \cup {"cancelled"}

\* a faulty variant of FinalStatus
AlwaysCompleted(result) == "completed"

\* TaskStatus of the task once its result is known
FinalStatus(result) == IF result.success THEN "completed" ELSE "failed"

\* self._save_state(): full overwrite of logs/state.json
SaveState(pending) == pending

Results == {NoResult, CancelledResult, TimeoutResult, ExceptionResult} \cup
           {UnitResult(o, n) : o \in UnitOutcomes, n \in 1..(MaxRetries + 1)}

TypeOK ==
    /\ running \in BOOLEAN
    /\ files \in [Docs -> Contents]
    /\ state_json \subseteq Paths
    /\ pending_files \subseteq Paths
    /\ inflight_paths \subseteq Docs
    /\ active_tasks \subseteq Ids
    /\ task_results \in [Ids -> Results]
    /\ task_cancel_events \in [Ids -> {"none", "clear", "set"}]
    /\ running_exec_tasks \in [Ids -> {0} \cup Workers]
    /\ last_event_ts \subseteq Docs
    /\ processed_files \subseteq Docs
    /\ fs_writes \in 0..MaxWrites
    /\ backoff_mult \in 1..MaxBackoffMult
    /\ \A w \in Workers :
          worker[w].pc \in {"not_started", "idle", "waiting", "teardown", "backoff", "exited"}

\* ------------------------------------------------------------------ Init
\* TaskOrchestrator.__init__: empty queue and maps, the pending set loaded
\* from logs/state.json (nothing, or every path a former run recorded);
\* the inbox holds whatever was left there.
Init ==
    /\ running = FALSE
    /\ files \in [Docs -> Contents]
    /\ \A p \in Docs : files[p] \in ContentsAt(p)
    /\ processed_dir = {}
    /\ state_json \in {{}, Paths}
    /\ pending_files = state_json
    /\ inflight_paths = {}
    /\ task_queue = <<>>
    /\ active_tasks = {}
    /\ task_results = [i \in Ids |-> NoResult]
    /\ task_cancel_events = [i \in Ids |-> "none"]
    /\ running_exec_tasks = [i \in Ids |-> 0]
    /\ last_event_ts = {}
    /\ processed_files = {}
    /\ worker = [w \in Workers |-> [IdleWorker EXCEPT !.pc = "not_started"]]
    /\ fs_writes = 0
    /\ backoff_mult = ClampMult(BackoffMultiplier)
    /\ direct = NotCalled
    /\ watch = Untimed
    /\ pipe = NoTrace
    /\ stopping = NotStopping
    /\ creation = NotCreating
    /\ results_dir = EmptyResultsDir
    /\ unit = NoUnit
    /\ writers = NoWriters
    /\ document = NoDocument

\* ------------------------------------------------------------- ingestion
\* the part of the state _handle_new_task_file works on
Ingestion ==
    [inflight_paths |-> inflight_paths, pending_files |-> pending_files,
     state_json |-> state_json, task_queue |-> task_queue,
     active_tasks |-> active_tasks]

\* a faulty variant of HandleNewTaskFile: no per-path lock is consulted
IngestWithoutLock(s, p) ==
    IF files[p] \notin Ids
    THEN [s EXCEPT !.pending_files = @ \ {p},
                   !.state_json = SaveState(s.pending_files \ {p})]
    ELSE [s EXCEPT !.inflight_paths = @ \cup {p},
                   !.pending_files = @ \cup {p},
                   !.state_json = SaveState(s.pending_files \cup {p}),
                   !.task_queue = Append(@, [path |-> p, id |-> files[p]]),
                   !.active_tasks = @ \cup {files[p]}]

\* a faulty variant of HandleNewTaskFile: a document with format errors
\* keeps its lock and its pending entry
IngestKeepingInvalid(s, p) ==
    IF p \in s.inflight_paths
    THEN s
    ELSE IF files[p] \notin Ids
    THEN [s EXCEPT !.inflight_paths = @ \cup {p},
                   !.pending_files = @ \cup {p},
                   !.state_json = SaveState(s.pending_files \cup {p})]
    ELSE [s EXCEPT !.inflight_paths = @ \cup {p},
                   !.pending_files = @ \cup {p},
                   !.state_json = SaveState(s.pending_files \cup {p}),
                   !.task_queue = Append(@, [path |-> p, id |-> files[p]]),
                   !.active_tasks = @ \cup {files[p]}]

\* TaskOrchestrator._handle_new_task_file(p) for an inbox path p.  The
\* queue is unbounded, so `await task_queue.put` does not suspend.
HandleNewTaskFile(s, p) ==
    IF p \in s.inflight_paths
    THEN \* already in flight: skipped
         s
    ELSE IF files[p] = NotMapping
    THEN \* validate_task_format raises: `except Exception` of the handler
         \* releases the lock; the pending entry, saved already, stays
         [s EXCEPT !.pending_files = @ \cup {p},
                   !.state_json = SaveState(s.pending_files \cup {p})]
    ELSE IF files[p] \notin Ids
    THEN \* validate_task_format reports errors (unreadable or malformed):
         \* the path leaves the pending set and the lock is released
         [s EXCEPT !.pending_files = @ \ {p},
                   !.state_json = SaveState(s.pending_files \ {p})]
    ELSE \* locked, tracked as pending, parsed and queued
         [s EXCEPT !.inflight_paths = @ \cup {p},
                   !.pending_files = @ \cup {p},
                   !.state_json = SaveState(s.pending_files \cup {p}),
                   !.task_queue = Append(@, [path |-> p, id |-> files[p]]),
                   !.active_tasks = @ \cup {files[p]}]

\* the loop `for file_path in list(self._pending_files)` of start(), the
\* paths taken in the order the sequence `order` gives
RECURSIVE ResumePending(_, _)
ResumePending(order, s) ==
    IF order = <<>> THEN s
    ELSE LET p == Head(order)
             s1 == IF p \in Docs /\ files[p] # Absent
                   THEN HandleNewTaskFile(s, p)
                   ELSE [s EXCEPT !.pending_files = @ \ {p}]
         IN ResumePending(Tail(order), s1)

\* the orders in which iterating over the set S can yield its members
Orders(S) ==
    {o \in [1..Cardinality(S) -> S] : \A a, b \in 1..Cardinality(S) : o[a] = o[b] => a = b}

Ingested(s) ==
    /\ inflight_paths' = s.inflight_paths
    /\ pending_files' = s.pending_files
    /\ state_json' = s.state_json
    /\ task_queue' = s.task_queue
    /\ active_tasks' = s.active_tasks

\* ----------------------------------------------------------------- start
\* start(): running is set, the workers are created, the pending paths are
\* resumed, the state is saved, and file_watcher.start_async scans the
\* inbox (_process_existing_files arms the debounce timer of every file).
\* Nothing in it suspends, so no worker runs before it ends.
Start(order) ==
    /\ ~running
    /\ order \in Orders(pending_files)
    /\ running' = TRUE
    /\ worker' = [w \in Workers |-> IdleWorker]
    /\ LET s == ResumePending(order, Ingestion)
       IN Ingested([s EXCEPT !.state_json = SaveState(s.pending_files)])
    /\ last_event_ts' = {p \in Docs : files[p] # Absent}
    /\ stopping' = [stopping EXCEPT !.worker_tasks = Workers,
                                    !.loops = WorkersAfterStart(running, @)]
    /\ UNCHANGED <<backoff_mult, direct, watch, pipe, creation, results_dir, unit, writers, document>>
    /\ UNCHANGED <<files, processed_dir, task_results, task_cancel_events,
                   running_exec_tasks, processed_files, fs_writes>>

\* --------------------------------------------------------------- watcher
\* a writer creates inbox file p with content c: on_created
FileCreated(p, c) ==
    /\ running
    /\ files[p] = Absent
    /\ c \in ContentsAt(p) \ {Absent}
    /\ fs_writes < MaxWrites
    /\ fs_writes' = fs_writes + 1
    /\ files' = [files EXCEPT ![p] = c]
    /\ last_event_ts' = last_event_ts \cup {p}
    /\ UNCHANGED <<backoff_mult, direct, watch, pipe, stopping, creation, results_dir, unit, writers, document>>
    /\ UNCHANGED <<running, processed_dir, state_json, pending_files, inflight_paths,
                   task_queue, active_tasks, task_results, task_cancel_events,
                   running_exec_tasks, processed_files, worker>>

\* a writer rewrites inbox file p: on_modified, ignored for a processed path
FileModified(p, c) ==
    /\ running
    /\ files[p] # Absent
    /\ c \in ContentsAt(p) \ {Absent}
    /\ fs_writes < MaxWrites
    /\ fs_writes' = fs_writes + 1
    /\ files' = [files EXCEPT ![p] = c]
    /\ last_event_ts' = IF p \in processed_files THEN last_event_ts
                        ELSE last_event_ts \cup {p}
    /\ UNCHANGED <<backoff_mult, direct, watch, pipe, stopping, creation, results_dir, unit, writers, document>>
    /\ UNCHANGED <<running, processed_dir, state_json, pending_files, inflight_paths,
                   task_queue, active_tasks, task_results, task_cancel_events,
                   running_exec_tasks, processed_files, worker>>

\* the debounce timer of p fires with no newer event: _maybe_process,
\* _process_file, and the callback it schedules
DebounceFires(p) ==
    /\ running
    /\ p \in last_event_ts
    /\ last_event_ts' = last_event_ts \ {p}
    /\ processed_files' = processed_files \cup {p}
    /\ Ingested(HandleNewTaskFile(Ingestion, p))
    /\ UNCHANGED <<backoff_mult, direct, watch, pipe, stopping, creation, results_dir, unit, writers, document>>
    /\ UNCHANGED <<running, files, processed_dir, task_results, task_cancel_events,
                   running_exec_tasks, worker, fs_writes>>

\* ---------------------------------------------------------- worker loop
\* the attempt process_task launches: exec_task and both helper waiters
LaunchAttempt(wk, n) ==
    [wk EXCEPT !.pc = "waiting", !.attempt = n, !.exec = "running",
               !.cancel_waiter = IF wk.cancel_ev = "absent" THEN "none" ELSE "pending",
               !.timeout_waiter = "pending",
               !.branch = "none"]

\* The worker loops are interchangeable (the code uses a worker's name in
\* log lines only), so the queue hands its head to the first idle one.
NextGetter(w) ==
    /\ worker[w].pc = "idle"
    /\ \A v \in Workers : v < w => worker[v].pc # "idle"

\* `if cancel_ev.is_set()` of _task_worker, on the registry entry of the
\* dequeued task (a missing entry is created clear)
CancelledBeforeStart(ev) == ev = "set"

\* task.priority as the document of task i declares it: the later
\* document is the more urgent one
Priority(i) == IF i = 1 THEN "low" ELSE "high"

\* a faulty variant of QueueGet: the first of the most urgent tasks
QueueGetByPriority(q) ==
    LET urgent == {k \in 1..Len(q) : Priority(q[k].id) = "high"}
        k == IF urgent = {} THEN 1
             ELSE CHOOSE j \in urgent : \A h \in urgent : j <= h
    IN [item |-> q[k], rest |-> SubSeq(q, 1, k - 1) \o SubSeq(q, k + 1, Len(q))]

\* asyncio.Queue.get() on a queue that is not empty: the oldest item,
\* whatever its priority
QueueGet(q) == [item |-> Head(q), rest |-> Tail(q)]

\* _task_worker: task_queue.get() returns the head of the queue.  A task
\* whose cancel flag is already set is dropped (lock and pending entry
\* released, nothing archived); otherwise process_task runs up to its
\* first suspension, the asyncio.wait of attempt 1.
Dequeue(w) ==
    /\ running
    /\ NextGetter(w)
    /\ task_queue # <<>>
    /\ LET t == QueueGet(task_queue).item IN
       /\ task_queue' = QueueGet(task_queue).rest
       /\ IF CancelledBeforeStart(task_cancel_events[t.id])
          THEN /\ inflight_paths' = inflight_paths \ {t.path}
               /\ pending_files' = pending_files \ {t.path}
               /\ state_json' = SaveState(pending_files')
               /\ worker' = [worker EXCEPT ![w] =
                     [IdleWorker EXCEPT !.path = t.path, !.id = t.id,
                                        !.status = "failed",
                                        !.log = <<"cancelled">>]]
               /\ UNCHANGED <<task_cancel_events, running_exec_tasks>>
          ELSE /\ task_cancel_events' = [task_cancel_events EXCEPT ![t.id] = "clear"]
               /\ running_exec_tasks' = [running_exec_tasks EXCEPT ![t.id] = w]
               /\ worker' = [worker EXCEPT ![w] =
                     LaunchAttempt([IdleWorker EXCEPT !.path = t.path, !.id = t.id,
                                                      !.status = "processing",
                                                      !.retry_delay = BaseDelay,
                                                      !.log = <<"claude_started">>], 1)]
               /\ UNCHANGED <<inflight_paths, pending_files, state_json>>
    /\ UNCHANGED <<backoff_mult, direct, watch, pipe, stopping, creation, results_dir, unit, writers, document>>
    /\ UNCHANGED <<running, files, processed_dir, active_tasks, task_results,
                   last_event_ts, processed_files, fs_writes>>

\* the cancellation registry and the worker frames, as cancel_task sees them
Cancellation == [events |-> task_cancel_events, worker |-> worker]

\* a faulty variant of cancel_task: the flag is not tested before it is set
CancelTaskAgain(s, i) ==
    IF s.events[i] = "none" /\ i \notin active_tasks
    THEN [events |-> s.events, worker |-> s.worker, emitted |-> <<>>, ret |-> FALSE]
    ELSE [events |-> [s.events EXCEPT ![i] = "set"],
          worker |-> [w \in Workers |->
                        IF running_exec_tasks[i] = w
                        THEN [s.worker[w] EXCEPT !.exec = CancelExec(@)]
                        ELSE s.worker[w]],
          emitted |-> <<"cancel_requested">>,
          ret |-> TRUE]

\* TaskOrchestrator.cancel_task(i) on registry and frames s: what it
\* leaves of them, the events it emits and the value it returns.  With no
\* registry entry an entry is created if i is a key of active_tasks; a
\* flag that is not set is set, and the registered exec_task, unless
\* done, is cancelled.
cancel_task(s, i) ==
    IF s.events[i] = "none" /\ i \notin active_tasks
    THEN [events |-> s.events, worker |-> s.worker, emitted |-> <<>>, ret |-> FALSE]
    ELSE IF s.events[i] # "set"
    THEN [events |-> [s.events EXCEPT ![i] = "set"],
          worker |-> [w \in Workers |->
                        IF running_exec_tasks[i] = w
                        THEN [s.worker[w] EXCEPT !.exec = CancelExec(@)]
                        ELSE s.worker[w]],
          emitted |-> <<"cancel_requested">>,
          ret |-> TRUE]
    ELSE [events |-> s.events, worker |-> s.worker, emitted |-> <<>>, ret |-> FALSE]

\* the control surface calls cancel_task(i)
CancelTask(i) ==
    /\ running
    /\ LET c == cancel_task(Cancellation, i)
       IN /\ task_cancel_events' = c.events
          /\ worker' = c.worker
    /\ UNCHANGED <<backoff_mult, direct, watch, pipe, stopping, creation, results_dir, unit, writers, document>>
    /\ UNCHANGED <<running, files, processed_dir, state_json, pending_files,
                   inflight_paths, task_queue, active_tasks, task_results,
                   running_exec_tasks, last_event_ts, processed_files, fs_writes>>

\* What exec_task can have become by the time process_task looks at it.
\* Running: still running, or ClaudeBridge.execute_task returned a
\* TaskResult.  Cancelled: still being torn down, or ended as cancelled
\* (execute_task catches Exception only, and CancelledError is none), or
\* ended with a TaskResult all the same (asyncio.wait_for of Python <= 3.11
\* returns the result when the subprocess had just finished).
ExecOutcomes(st) ==
    IF st = "running" THEN {"running"} \cup UnitOutcomes
    ELSE IF st = "cancelling" THEN {"cancelling", "cancelled"} \cup UnitOutcomes
    ELSE {st}

\* CancelledError leaves process_task (it is no Exception, so neither
\* contextlib.suppress(Exception) nor `except Exception` stops it) after
\* the `finally` cancelled the helper waiters; the worker loop catches it
\* and breaks.
EscapeCancelled(wk) ==
    [EndAttempt(wk) EXCEPT !.pc = "exited", !.attempt = 0, !.retry_delay = 0]

\* the retry decision on the unit's result, and what follows it: the
\* backoff sleep, or summarization and validation and the return.  An
\* exception of summarize_result reaches `except Exception` of
\* process_task, one of the validation pass is swallowed.
AfterUnitWith(wk, faults) ==
    LET res == UnitResult(wk.exec, wk.attempt)
        done == [EndAttempt(wk) EXCEPT !.branch = "unit"]
    IN IF ShouldRetry(res.error_class, wk.attempt, res.success)
       THEN [done EXCEPT !.pc = "backoff", !.log = Append(@, "retry")]
       ELSE IF "summarize" \in faults
       THEN [done EXCEPT !.pc = "returned", !.result = ExceptionResult]
       ELSE [done EXCEPT !.pc = "returned", !.result = res,
                         !.log = @ \o (IF "validate" \in faults
                                       THEN <<"summarized">>
                                       ELSE <<"summarized", "validated">>)]

AfterUnit(wk) == AfterUnitWith(wk, {})

\* the if / elif / else on the done set of asyncio.wait
AfterWaitWith(wk, faults) ==
    IF wk.exec \in UnitOutcomes THEN AfterUnitWith(wk, faults)
    ELSE IF wk.exec = "cancelled"
         THEN \* exec_task.result() raises CancelledError
              EscapeCancelled([wk EXCEPT !.branch = "unit"])
    ELSE IF wk.cancel_waiter = "done"
         THEN [wk EXCEPT !.pc = "teardown", !.branch = "cancel", !.exec = CancelExec(@)]
    ELSE [wk EXCEPT !.pc = "teardown", !.branch = "timeout", !.exec = CancelExec(@)]

AfterWait(wk) == AfterWaitWith(wk, {})

\* `with contextlib.suppress(Exception): await exec_task` is over,
\* exec_task having ended as wk.exec: the event, and the failed result
AfterAwaitExec(wk) ==
    IF wk.exec = "cancelled" THEN EscapeCancelled(wk)
    ELSE [EndAttempt(wk) EXCEPT
                    !.pc = "returned",
                    !.result = IF wk.branch = "cancel" THEN CancelledResult
                               ELSE TimeoutResult,
                    !.log = Append(@, IF wk.branch = "cancel"
                                      THEN "cancelled" ELSE "timeout")]

\* the Event object another worker holds once the registry entry is popped
Orphaned(wk, i) ==
    IF wk.id = i /\ wk.cancel_ev = "registry" /\ wk.pc \notin {"idle", "not_started"}
    THEN [wk EXCEPT !.cancel_ev = IF task_cancel_events[i] = "set"
                                  THEN "orphan_set" ELSE "orphan_clear"]
    ELSE wk

\* _task_worker after process_task returned wk.result: store the result,
\* set the status, emit claude_finished, write the artifacts, archive the
\* source file, release lock and pending entry, pop the registry entries,
\* task_done(), and back to task_queue.get().  None of it suspends.
PostProcess(w, wk) ==
    /\ task_results' = [task_results EXCEPT ![wk.id] = wk.result]
    /\ IF files[wk.path] # Absent
       THEN /\ files' = [files EXCEPT ![wk.path] = Absent]
            /\ processed_dir' = processed_dir \cup {<<wk.id, FinalStatus(wk.result)>>}
       ELSE UNCHANGED <<files, processed_dir>>
    /\ inflight_paths' = inflight_paths \ {wk.path}
    /\ pending_files' = pending_files \ {wk.path}
    /\ state_json' = SaveState(pending_files')
    /\ task_cancel_events' = [task_cancel_events EXCEPT ![wk.id] = "none"]
    /\ running_exec_tasks' = [running_exec_tasks EXCEPT ![wk.id] = 0]
    /\ worker' = [v \in Workers |->
                    IF v = w THEN IdleWorker ELSE Orphaned(worker[v], wk.id)]

\* process_task moved worker w on to wk: it returned, or it suspends again
\* (teardown, backoff), or the worker loop has ended
Continue(w, wk) ==
    IF wk.pc = "returned"
    THEN PostProcess(w, wk)
    ELSE /\ worker' = [worker EXCEPT ![w] = wk]
         /\ UNCHANGED <<files, processed_dir, state_json, pending_files,
                        inflight_paths, task_results, task_cancel_events,
                        running_exec_tasks>>

\* asyncio.wait(..., FIRST_COMPLETED) returns with a non-empty done set:
\* e is what exec_task has become, cw and tw say whether the cancel waiter
\* (its event must be set) and the timeout waiter are in the done set
Wake(w, e, cw, tw) ==
    /\ worker[w].pc = "waiting"
    /\ e \in ExecOutcomes(worker[w].exec)
    /\ e = "transient_marker" => worker[w].attempt <= MaxTransient
    /\ cw = "done" => HeldEventSet(w)
    /\ ExecDone(e) \/ cw = "done" \/ tw = "done"
    /\ Continue(w, AfterWait([worker[w] EXCEPT !.exec = e, !.cancel_waiter = cw,
                                               !.timeout_waiter = tw]))
    /\ UNCHANGED <<backoff_mult, direct, watch, pipe, stopping, creation, results_dir, unit, writers, document>>
    /\ UNCHANGED <<running, task_queue, active_tasks, last_event_ts,
                   processed_files, fs_writes>>

\* the exec_task process_task cancelled and awaits has ended as e
AfterTeardown(w, e) ==
    /\ worker[w].pc = "teardown"
    /\ e \in ExecOutcomes(worker[w].exec)
    /\ e = "transient_marker" => worker[w].attempt <= MaxTransient
    /\ ExecDone(e)
    /\ Continue(w, AfterAwaitExec([worker[w] EXCEPT !.exec = e]))
    /\ UNCHANGED <<backoff_mult, direct, watch, pipe, stopping, creation, results_dir, unit, writers, document>>
    /\ UNCHANGED <<running, task_queue, active_tasks, last_event_ts,
                   processed_files, fs_writes>>

\* the backoff sleep ends: retry_delay *= backoff_mult, the next attempt
BackoffDone(w) ==
    /\ worker[w].pc = "backoff"
    /\ worker' = [worker EXCEPT ![w] =
          LaunchAttempt([@ EXCEPT !.retry_delay = NextRetryDelay(@, backoff_mult)],
                        @.attempt + 1)]
    /\ running_exec_tasks' = [running_exec_tasks EXCEPT ![worker[w].id] = w]
    /\ UNCHANGED <<backoff_mult, direct, watch, pipe, stopping, creation, results_dir, unit, writers, document>>
    /\ UNCHANGED <<running, files, processed_dir, state_json, pending_files,
                   inflight_paths, task_queue, active_tasks, task_results,
                   task_cancel_events, last_event_ts, processed_files, fs_writes>>

\* ------------------------------------------------------------------ Next
WaiterStates == {"pending", "done"}
ExecStates == {"running", "cancelling", "cancelled"} \cup UnitOutcomes

Next ==
    \/ \E order \in Orders(pending_files) : Start(order)
    \/ \E p \in Docs, c \in Contents : FileCreated(p, c)
    \/ \E p \in Docs, c \in Contents : FileModified(p, c)
    \/ \E p \in Docs : DebounceFires(p)
    \/ \E w \in Workers : Dequeue(w)
    \/ \E i \in Ids : CancelTask(i)
    \/ \E w \in Workers, e \in ExecStates, cw \in WaiterStates, tw \in WaiterStates :
          Wake(w, e, cw, tw)
    \/ \E w \in Workers, e \in ExecStates : AfterTeardown(w, e)
    \/ \E w \in Workers : BackoffDone(w)

Spec == Init /\ [][Next]_vars

\* ------------------------------------------- process_task called directly
\* A fresh orchestrator that was never started; the configured backoff
\* multiplier is any value up to MaxBackoffMult.
InitRetry ==
    /\ running = FALSE
    /\ files = [p \in Docs |-> Absent]
    /\ processed_dir = {}
    /\ state_json = {}
    /\ pending_files = {}
    /\ inflight_paths = {}
    /\ task_queue = <<>>
    /\ active_tasks = {}
    /\ task_results = [i \in Ids |-> NoResult]
    /\ task_cancel_events = [i \in Ids |-> "none"]
    /\ running_exec_tasks = [i \in Ids |-> 0]
    /\ last_event_ts = {}
    /\ processed_files = {}
    /\ worker = [w \in Workers |-> [IdleWorker EXCEPT !.pc = "not_started"]]
    /\ fs_writes = 0
    /\ \E configured \in 0..MaxBackoffMult : backoff_mult = ClampMult(configured)
    /\ direct = NotCalled
    /\ watch = Untimed
    /\ pipe = NoTrace
    /\ stopping = NotStopping
    /\ creation = NotCreating
    /\ results_dir = EmptyResultsDir
    /\ unit = NoUnit
    /\ writers = NoWriters
    /\ document = NoDocument

\* process_task(task) is called for a task of id 1: no registry entry, so
\* cancel_ev is None; enrichment, then attempt 1 is launched
DirectCall ==
    /\ direct.call.pc = "not_called"
    /\ direct' = [direct EXCEPT !.call =
          LaunchAttempt([IdleWorker EXCEPT !.id = 1, !.cancel_ev = "absent",
                                           !.status = "processing",
                                           !.retry_delay = BaseDelay], 1)]
    /\ running_exec_tasks' = [running_exec_tasks EXCEPT ![1] = 1]
    /\ UNCHANGED <<running, files, processed_dir, state_json, pending_files,
                   inflight_paths, task_queue, active_tasks, task_results,
                   task_cancel_events, last_event_ts, processed_files, worker,
                   fs_writes, backoff_mult, watch, pipe, stopping, creation, results_dir, unit, writers, document>>

\* the executor returns outcome e: asyncio.wait returns with exec_task
\* done, the result is classified, and process_task either sleeps
\* retry_delay * jitter or returns
DirectUnitDone(e, jitter) ==
    /\ direct.call.pc = "waiting"
    /\ LET wk == AfterWait([direct.call EXCEPT !.exec = e])
       IN direct' = [call |-> wk,
                     calls |-> Append(direct.calls, e),
                     slept |-> IF wk.pc = "backoff"
                               THEN Append(direct.slept,
                                           Delay(direct.call.retry_delay, jitter))
                               ELSE direct.slept]
    /\ UNCHANGED <<running, files, processed_dir, state_json, pending_files,
                   inflight_paths, task_queue, active_tasks, task_results,
                   task_cancel_events, running_exec_tasks, last_event_ts,
                   processed_files, worker, fs_writes, backoff_mult, watch, pipe, stopping, creation, results_dir, unit, writers, document>>

\* the backoff sleep of the direct call ends: the next attempt
DirectBackoffDone ==
    /\ direct.call.pc = "backoff"
    /\ direct' = [direct EXCEPT !.call =
          LaunchAttempt([@ EXCEPT !.retry_delay = NextRetryDelay(@, backoff_mult)],
                        @.attempt + 1)]
    /\ UNCHANGED <<running, files, processed_dir, state_json, pending_files,
                   inflight_paths, task_queue, active_tasks, task_results,
                   task_cancel_events, running_exec_tasks, last_event_ts,
                   processed_files, worker, fs_writes, backoff_mult, watch, pipe, stopping, creation, results_dir, unit, writers, document>>

NextRetry ==
    \/ DirectCall
    \/ \E e \in UnitOutcomes, jitter \in Jitters : DirectUnitDone(e, jitter)
    \/ DirectBackoffDone

SpecRetry == InitRetry /\ [][NextRetry]_vars

\* ------------------------------------------------- the watcher with a clock
\* A started orchestrator with an empty pending set whose inbox holds
\* task documents, valid or malformed; the filesystem notifications for
\* them are still to come.
InitWatch ==
    /\ running = TRUE
    /\ files \in [Docs -> Contents]
    /\ \A p \in Docs : files[p] \in ContentsAt(p) \ {Absent}
    /\ processed_dir = {}
    /\ state_json = {}
    /\ pending_files = {}
    /\ inflight_paths = {}
    /\ task_queue = <<>>
    /\ active_tasks = {}
    /\ task_results = [i \in Ids |-> NoResult]
    /\ task_cancel_events = [i \in Ids |-> "none"]
    /\ running_exec_tasks = [i \in Ids |-> 0]
    /\ last_event_ts = {}
    /\ processed_files = {}
    /\ worker = [w \in Workers |-> IdleWorker]
    /\ fs_writes = 0
    /\ backoff_mult = ClampMult(BackoffMultiplier)
    /\ direct = NotCalled
    /\ watch = Untimed
    /\ pipe = NoTrace
    /\ stopping = NotStopping
    /\ creation = NotCreating
    /\ results_dir = EmptyResultsDir
    /\ unit = NoUnit
    /\ writers = NoWriters
    /\ document = NoDocument

NotificationKinds == {"created", "modified", "moved"}

\* on_created / on_modified / on_moved for path p (for a move, p is the
\* destination): a modified or moved notification of a processed path is
\* ignored; otherwise _debounced_process stamps the path and schedules
\* one more _maybe_process check a debounce interval later
Notify(p, kind) ==
    /\ watch.notes[p] < MaxNotes
    /\ LET n == watch.notes[p] + 1
           seen == [watch EXCEPT !.notes[p] = n,
                                 !.first[p] = IF n = 1 THEN watch.now ELSE @,
                                 !.last[p] = watch.now]
       IN watch' = IF kind # "created" /\ p \in processed_files
                   THEN seen
                   ELSE [seen EXCEPT
                           !.last_event_ts[p] = watch.now,
                           !.timers = @ \cup {[path |-> p,
                                               due |-> watch.now + DebounceSeconds,
                                               n |-> n]}]
    /\ UNCHANGED <<running, files, processed_dir, state_json, pending_files,
                   inflight_paths, task_queue, active_tasks, task_results,
                   task_cancel_events, running_exec_tasks, last_event_ts,
                   processed_files, worker, fs_writes, backoff_mult, direct, pipe, stopping, creation, results_dir, unit, writers, document>>

\* the quiet check of _maybe_process
Quiet(now, ts) == now - ts >= DebounceSeconds

\* a scheduled check t runs, at its due time or later: _maybe_process,
\* and if the path has been quiet _process_file and the callback it
\* schedules, _handle_new_task_file
TimerFires(t) ==
    /\ t \in watch.timers
    /\ watch.now >= t.due
    /\ IF Quiet(watch.now, watch.last_event_ts[t.path])
       THEN LET s == HandleNewTaskFile(Ingestion, t.path)
            IN /\ processed_files' = processed_files \cup {t.path}
               /\ Ingested(s)
               /\ watch' = [watch EXCEPT
                     !.timers = @ \ {t},
                     !.calls[t.path] = @ + 1,
                     !.puts[t.path] = @ + Len(s.task_queue) - Len(task_queue)]
       ELSE /\ watch' = [watch EXCEPT !.timers = @ \ {t}]
            /\ UNCHANGED <<processed_files, state_json, pending_files,
                           inflight_paths, task_queue, active_tasks>>
    /\ UNCHANGED <<running, files, processed_dir, task_results, task_cancel_events,
                   running_exec_tasks, last_event_ts, worker, fs_writes,
                   backoff_mult, direct, pipe, stopping, creation, results_dir, unit, writers, document>>

\* time passes
Tick ==
    /\ watch.now < MaxTime
    /\ watch' = [watch EXCEPT !.now = @ + 1]
    /\ UNCHANGED <<running, files, processed_dir, state_json, pending_files,
                   inflight_paths, task_queue, active_tasks, task_results,
                   task_cancel_events, running_exec_tasks, last_event_ts,
                   processed_files, worker, fs_writes, backoff_mult, direct, pipe, stopping, creation, results_dir, unit, writers, document>>

\* a worker takes the head of the queue and processes it to the end with
\* no cancel request and no timeout: the result is stored, the source
\* file is moved to tasks/processed, lock and pending entry are released
TaskDone(success) ==
    /\ task_queue # <<>>
    /\ LET t == Head(task_queue)
           result == UnitResult(IF success THEN "ok" ELSE "no_marker", 1)
           status == FinalStatus(result)
       IN /\ task_queue' = Tail(task_queue)
          /\ task_results' = [task_results EXCEPT ![t.id] = result]
          /\ IF files[t.path] # Absent
             THEN /\ files' = [files EXCEPT ![t.path] = Absent]
                  /\ processed_dir' = processed_dir \cup {<<t.id, status>>}
             ELSE UNCHANGED <<files, processed_dir>>
          /\ inflight_paths' = inflight_paths \ {t.path}
          /\ pending_files' = pending_files \ {t.path}
          /\ state_json' = SaveState(pending_files')
    /\ UNCHANGED <<running, active_tasks, task_cancel_events, running_exec_tasks,
                   last_event_ts, processed_files, worker, fs_writes,
                   backoff_mult, direct, watch, pipe, stopping, creation, results_dir, unit, writers, document>>

NextWatch ==
    \/ \E p \in Docs, kind \in NotificationKinds : Notify(p, kind)
    \/ \E t \in watch.timers : TimerFires(t)
    \/ Tick
    \/ \E success \in BOOLEAN : TaskDone(success)

SpecWatch == InitWatch /\ [][NextWatch]_vars

\* ------------------------------------------- one task through the pipeline
\* A started orchestrator that has ingested the valid document at path 1
\* (task id 1) and nothing else; any set of the pipeline's steps raises.
InitPipeline ==
    /\ running = TRUE
    /\ files = [p \in Docs |-> IF p = 1 THEN 1 ELSE Absent]
    /\ processed_dir = {}
    /\ state_json = {1}
    /\ pending_files = {1}
    /\ inflight_paths = {1}
    /\ task_queue = <<[path |-> 1, id |-> 1]>>
    /\ active_tasks = {1}
    /\ task_results = [i \in Ids |-> NoResult]
    /\ task_cancel_events = [i \in Ids |-> "none"]
    /\ running_exec_tasks = [i \in Ids |-> 0]
    /\ last_event_ts = {}
    /\ processed_files = {1}
    /\ worker = [w \in Workers |-> IdleWorker]
    /\ fs_writes = 0
    /\ backoff_mult = ClampMult(BackoffMultiplier)
    /\ direct = NotCalled
    /\ watch = Untimed
    /\ \E faults \in SUBSET FaultSites : pipe = [NoTrace EXCEPT !.faults = faults]
    /\ stopping = [NotStopping EXCEPT !.worker_tasks = Workers,
                                   !.loops = WorkersAfterStart(FALSE, 0)]
    /\ creation = NotCreating
    /\ results_dir = EmptyResultsDir
    /\ unit = NoUnit
    /\ writers = NoWriters
    /\ document = NoDocument

\* _emit_event: the lines of `log` that reach logs/events.ndjson; an
\* exception of the write is swallowed and the line is lost
Emitted(log) == IF "events" \in pipe.faults THEN <<>> ELSE log

\* _write_artifacts(id, result) inside the worker's try / except: the
\* artifact file, then the index entry (best effort), then the summary
\* file; the event says whether all of it went through
WriteArtifacts(id, result) ==
    IF "artifact" \in pipe.faults
    THEN [artifact |-> pipe.artifact, index |-> pipe.index, event |-> "artifacts_error"]
    ELSE [artifact |-> [task_id |-> id, success |-> result.success,
                        retries |-> result.retries,
                        error_class |-> result.error_class],
          index |-> IF "index" \in pipe.faults THEN pipe.index ELSE id,
          event |-> IF "summary_file" \in pipe.faults
                    THEN "artifacts_error" ELSE "artifacts_written"]

\* a faulty variant of WorkerEvents: the archival is reported first
ArchivedBeforeArtifacts(log, artifacts, archival) ==
    log \o <<"claude_finished">> \o archival \o <<artifacts>>

\* the events the worker emits for a task after the events `log` of
\* process_task: claude_finished, then the outcome of the artifact
\* write, then the outcome of the archival (none when there was no
\* source file to move)
WorkerEvents(log, artifacts, archival) ==
    log \o <<"claude_finished", artifacts>> \o archival

\* the steps whose failure is an infrastructure failure
InfrastructureSites == {"events", "artifact", "summary_file", "index",
                        "save_state", "archive"}

\* a faulty variant of Finish: a failing infrastructure step reaches the
\* `except Exception` of the worker loop, which goes on to the next task
FinishStoppedByFault(w, wk) ==
    /\ task_results' = [task_results EXCEPT ![wk.id] = wk.result]
    /\ worker' = [worker EXCEPT ![w] = IdleWorker]
    /\ pipe' = [pipe EXCEPT !.returned = wk.result,
                            !.attempts = wk.attempt,
                            !.status = IF pipe.faults \cap InfrastructureSites = {}
                                       THEN FinalStatus(wk.result) ELSE "failed",
                            !.done = @ + 1]
    /\ UNCHANGED <<files, processed_dir, inflight_paths, pending_files, state_json,
                   task_cancel_events, running_exec_tasks>>

\* _task_worker after process_task returned wk.result, each step raising
\* or not as pipe.faults says: result stored, status set, claude_finished,
\* artifacts, archival, release of lock and pending entry, registry
\* cleanup, task_done()
Finish(w, wk) ==
    LET status == FinalStatus(wk.result)
        written == WriteArtifacts(wk.id, wk.result)
        moved == files[wk.path] # Absent /\ "archive" \notin pipe.faults
        log == WorkerEvents(wk.log, written.event,
                            IF files[wk.path] = Absent THEN <<>>
                            ELSE IF moved THEN <<"task_archived">>
                            ELSE <<"task_archive_failed">>)
    IN /\ task_results' = [task_results EXCEPT ![wk.id] = wk.result]
       /\ IF moved
          THEN /\ files' = [files EXCEPT ![wk.path] = Absent]
               /\ processed_dir' = processed_dir \cup {<<wk.id, status>>}
          ELSE UNCHANGED <<files, processed_dir>>
       /\ inflight_paths' = inflight_paths \ {wk.path}
       /\ pending_files' = pending_files \ {wk.path}
       /\ state_json' = IF "save_state" \in pipe.faults THEN state_json
                        ELSE SaveState(pending_files')
       /\ task_cancel_events' = [task_cancel_events EXCEPT ![wk.id] = "none"]
       /\ running_exec_tasks' = [running_exec_tasks EXCEPT ![wk.id] = 0]
       /\ worker' = [worker EXCEPT ![w] = IdleWorker]
       /\ pipe' = [pipe EXCEPT !.events = Emitted(log),
                               !.artifact = written.artifact,
                               !.index = written.index,
                               !.returned = wk.result,
                               !.last_unit = IF wk.branch = "unit"
                                             THEN UnitResult(wk.exec, wk.attempt)
                                             ELSE @,
                               !.attempts = wk.attempt,
                               !.status = status,
                               !.done = @ + 1]

\* process_task moved worker w on to wk
Proceed(w, wk) ==
    IF wk.pc = "returned"
    THEN Finish(w, wk)
    ELSE /\ worker' = [worker EXCEPT ![w] = wk]
         /\ pipe' = [pipe EXCEPT !.events = Emitted(wk.log),
                                 !.attempts = IF wk.pc = "exited" THEN @ ELSE wk.attempt]
         /\ UNCHANGED <<files, processed_dir, state_json, pending_files,
                        inflight_paths, task_results, task_cancel_events,
                        running_exec_tasks>>

\* a faulty variant of Enrich: the execution is attempted all the same
EnrichIgnoringFailure(frame) ==
    LaunchAttempt([frame EXCEPT !.retry_delay = BaseDelay], 1)

\* process_task from its entry to its first suspension: the mediator's
\* parse_task and create_claude_prompt, which may raise into
\* `except Exception` (a failed result is returned, errors = [str(e)]),
\* then the first execution attempt
Enrich(frame) ==
    IF "mediator" \in pipe.faults
    THEN [frame EXCEPT !.pc = "returned", !.result = ExceptionResult]
    ELSE LaunchAttempt([frame EXCEPT !.retry_delay = BaseDelay], 1)

\* a worker dequeues the task: dropped if its flag is set; otherwise
\* claude_started, and process_task runs to its first suspension, or its
\* enrichment raises and it returns the failed result at once
Take(w) ==
    /\ NextGetter(w)
    /\ task_queue # <<>>
    /\ LET t == QueueGet(task_queue).item
           frame == [IdleWorker EXCEPT !.path = t.path, !.id = t.id,
                                       !.status = "processing",
                                       !.log = <<"claude_started">>]
       IN /\ task_queue' = QueueGet(task_queue).rest
          /\ IF CancelledBeforeStart(task_cancel_events[t.id])
             THEN /\ inflight_paths' = inflight_paths \ {t.path}
                  /\ pending_files' = pending_files \ {t.path}
                  /\ state_json' = IF "save_state" \in pipe.faults THEN state_json
                                   ELSE SaveState(pending_files')
                  /\ worker' = [worker EXCEPT ![w] =
                        [IdleWorker EXCEPT !.path = t.path, !.id = t.id,
                                           !.status = "failed",
                                           !.log = <<"cancelled">>]]
                  /\ pipe' = [pipe EXCEPT !.events = Emitted(<<"cancelled">>),
                                          !.status = "failed",
                                          !.done = @ + 1]
                  /\ UNCHANGED <<task_cancel_events, running_exec_tasks, files,
                                 processed_dir, task_results>>
             ELSE IF Enrich(frame).pc = "returned"
             THEN Finish(w, Enrich(frame))
             ELSE /\ task_cancel_events' = [task_cancel_events EXCEPT ![t.id] = "clear"]
                  /\ running_exec_tasks' = [running_exec_tasks EXCEPT ![t.id] = w]
                  /\ worker' = [worker EXCEPT ![w] = Enrich(frame)]
                  /\ pipe' = [pipe EXCEPT !.events = Emitted(frame.log),
                                          !.attempts = 1]
                  /\ UNCHANGED <<inflight_paths, pending_files, state_json, files,
                                 processed_dir, task_results>>
    /\ UNCHANGED <<running, active_tasks, last_event_ts, processed_files,
                   fs_writes, backoff_mult, direct, watch, creation, results_dir, unit, writers, document>>

PipeDequeue(w) ==
    /\ running
    /\ Take(w)
    /\ UNCHANGED stopping

\* asyncio.wait returns for worker w, see Wake
PipeWake(w, e, cw, tw) ==
    /\ worker[w].pc = "waiting"
    /\ e \in ExecOutcomes(worker[w].exec)
    /\ e = "transient_marker" => worker[w].attempt <= MaxTransient
    /\ cw = "done" => HeldEventSet(w)
    /\ ExecDone(e) \/ cw = "done" \/ tw = "done"
    /\ Proceed(w, AfterWaitWith([worker[w] EXCEPT !.exec = e, !.cancel_waiter = cw,
                                                  !.timeout_waiter = tw], pipe.faults))
    /\ UNCHANGED <<running, task_queue, active_tasks, last_event_ts,
                   processed_files, fs_writes, backoff_mult, direct, watch, stopping, creation, results_dir, unit, writers, document>>

\* the exec_task process_task cancelled and awaits has ended as e
PipeAfterTeardown(w, e) ==
    /\ worker[w].pc = "teardown"
    /\ e \in ExecOutcomes(worker[w].exec)
    /\ e = "transient_marker" => worker[w].attempt <= MaxTransient
    /\ ExecDone(e)
    /\ Proceed(w, AfterAwaitExec([worker[w] EXCEPT !.exec = e]))
    /\ UNCHANGED <<running, task_queue, active_tasks, last_event_ts,
                   processed_files, fs_writes, backoff_mult, direct, watch, stopping, creation, results_dir, unit, writers, document>>

\* the backoff sleep ends: the next attempt
PipeBackoffDone(w) ==
    /\ worker[w].pc = "backoff"
    /\ worker' = [worker EXCEPT ![w] =
          LaunchAttempt([@ EXCEPT !.retry_delay = NextRetryDelay(@, backoff_mult)],
                        @.attempt + 1)]
    /\ running_exec_tasks' = [running_exec_tasks EXCEPT ![worker[w].id] = w]
    /\ pipe' = [pipe EXCEPT !.attempts = @ + 1]
    /\ UNCHANGED <<running, files, processed_dir, state_json, pending_files,
                   inflight_paths, task_queue, active_tasks, task_results,
                   task_cancel_events, last_event_ts, processed_files, fs_writes,
                   backoff_mult, direct, watch, stopping, creation, results_dir, unit, writers, document>>

NextPipeline ==
    \/ \E w \in Workers : PipeDequeue(w)
    \/ CancelTask(1)
    \/ \E w \in Workers, e \in ExecStates, cw \in WaiterStates, tw \in WaiterStates :
          PipeWake(w, e, cw, tw)
    \/ \E w \in Workers, e \in ExecStates : PipeAfterTeardown(w, e)
    \/ \E w \in Workers : PipeBackoffDone(w)

SpecPipeline == InitPipeline /\ [][NextPipeline]_vars

\* The same under the scheduling of the event loop: a worker that can
\* take a task does, and every wait of process_task ends (the executor
\* finishes, the cancel flag is seen, the timeout elapses, the torn-down
\* execution ends, the backoff sleep is over).
SpecPipelineLive ==
    /\ InitPipeline
    /\ [][NextPipeline]_vars
    /\ \A w \in Workers :
          /\ WF_vars(PipeDequeue(w))
          /\ WF_vars(\E e \in ExecStates, cw \in WaiterStates, tw \in WaiterStates :
                        PipeWake(w, e, cw, tw))
          /\ WF_vars(\E e \in ExecStates : PipeAfterTeardown(w, e))
          /\ WF_vars(PipeBackoffDone(w))

\* ======================================== create_task_from_description
\* file names as their dot-separated parts: .<task_id>.task.tmp and
\* <task_id>.task.md
TmpName(i) == <<"", ToString(i), "task", "tmp">>
FinalName(i) == <<ToString(i), "task", "md">>

\* TaskFileHandler._is_task_file: suffix .md and ".task." in the name
IsTaskFile(name) ==
    /\ name[Len(name)] = "md"
    /\ \E k \in 2..(Len(name) - 1) : name[k] = "task"

\* A started orchestrator with an empty inbox.
InitCreate ==
    /\ running = TRUE
    /\ files = [p \in Docs |-> Absent]
    /\ processed_dir = {}
    /\ state_json = {}
    /\ pending_files = {}
    /\ inflight_paths = {}
    /\ task_queue = <<>>
    /\ active_tasks = {}
    /\ task_results = [i \in Ids |-> NoResult]
    /\ task_cancel_events = [i \in Ids |-> "none"]
    /\ running_exec_tasks = [i \in Ids |-> 0]
    /\ last_event_ts = {}
    /\ processed_files = {}
    /\ worker = [w \in Workers |-> IdleWorker]
    /\ fs_writes = 0
    /\ backoff_mult = ClampMult(BackoffMultiplier)
    /\ direct = NotCalled
    /\ watch = Untimed
    /\ pipe = NoTrace
    /\ stopping = [NotStopping EXCEPT !.worker_tasks = Workers,
                                   !.loops = WorkersAfterStart(FALSE, 0)]
    /\ creation = NotCreating
    /\ results_dir = EmptyResultsDir
    /\ unit = NoUnit
    /\ writers = NoWriters
    /\ document = NoDocument

\* on_created / on_modified / on_moved for document i's file `name`
\* (the destination, for a move): a task file arms the debounce timer of
\* its path, unless it is a modification or a move of a path already
\* processed
Armed(i, kind, name) ==
    IF IsTaskFile(name) /\ (kind = "created" \/ i \notin processed_files)
    THEN last_event_ts \cup {i}
    ELSE last_event_ts

\* what neither the function nor the watcher's handler touches
OrchestratorIdle ==
    UNCHANGED <<running, files, processed_dir, state_json, pending_files,
                inflight_paths, task_queue, active_tasks, task_results,
                task_cancel_events, running_exec_tasks, worker, fs_writes,
                backoff_mult, direct, watch, pipe, stopping, results_dir, unit, writers, document>>

\* one step of the call for document i: the frame moves on to `frame`
\* and the file system reports `kind` on `name`
CreateStep(i, frame, kind, name) ==
    /\ creation' = [creation EXCEPT
          ![i] = [frame EXCEPT !.notified = @ \cup {<<kind, name>>}]]
    /\ last_event_ts' = Armed(i, kind, name)
    /\ UNCHANGED processed_files

\* the call fails at this step and nothing is reported
CreateRaises(i) ==
    /\ creation' = [creation EXCEPT ![i].pc = "raised"]
    /\ UNCHANGED <<last_event_ts, processed_files>>

\* tmp_file.write_text opens the temporary file
OpenTmp(i, caller) ==
    /\ creation[i].pc = "not_called"
    /\ CreateStep(i, [creation[i] EXCEPT !.pc = "writing_tmp", !.caller = caller,
                                         !.tmp = "partial"],
                  "created", TmpName(i))
    /\ OrchestratorIdle

\* ... and writes the content, or raises
WriteTmp(i, ok) ==
    /\ creation[i].pc = "writing_tmp"
    /\ IF ok
       THEN CreateStep(i, [creation[i] EXCEPT !.pc = "replacing", !.tmp = "complete"],
                       "modified", TmpName(i))
       ELSE CreateRaises(i)
    /\ OrchestratorIdle

\* tmp_file.replace(task_file), or its exception caught
Replace(i, ok) ==
    /\ creation[i].pc = "replacing"
    /\ IF ok
       THEN CreateStep(i, [creation[i] EXCEPT !.pc = "returned", !.tmp = "absent",
                                             !.final = creation[i].tmp],
                       "moved", FinalName(i))
       ELSE /\ creation' = [creation EXCEPT ![i].pc = "fallback"]
            /\ UNCHANGED <<last_event_ts, processed_files>>
    /\ OrchestratorIdle

\* the fallback's task_file.write_text opens the document itself
FallbackOpen(i, ok) ==
    /\ creation[i].pc = "fallback"
    /\ IF ok
       THEN CreateStep(i, [creation[i] EXCEPT !.pc = "writing_final",
                                             !.final = "partial"],
                       "created", FinalName(i))
       ELSE CreateRaises(i)
    /\ OrchestratorIdle

\* ... and writes the content, or raises
FallbackWrite(i, ok) ==
    /\ creation[i].pc = "writing_final"
    /\ IF ok
       THEN CreateStep(i, [creation[i] EXCEPT !.pc = "returned",
                                             !.final = "complete"],
                       "modified", FinalName(i))
       ELSE CreateRaises(i)
    /\ OrchestratorIdle

\* the function is synchronous: while a coroutine of the loop is inside
\* it, the loop runs nothing else
LoopFree ==
    \A i \in Docs : creation[i].caller = "loop"
                     => creation[i].pc \in {"returned", "raised"}

\* the debounce timer of document i fires on the loop after a quiet
\* period and the ingestion callback is invoked for the document as it is
CreationDebounceFires(i) ==
    /\ LoopFree
    /\ i \in last_event_ts
    /\ last_event_ts' = last_event_ts \ {i}
    /\ processed_files' = processed_files \cup {i}
    /\ creation' = [creation EXCEPT ![i].callbacks = Append(@, creation[i].final)]
    /\ OrchestratorIdle

NextCreate ==
    \/ \E i \in Docs, caller \in {"loop", "process"} : OpenTmp(i, caller)
    \/ \E i \in Docs, ok \in BOOLEAN : WriteTmp(i, ok)
    \/ \E i \in Docs, ok \in BOOLEAN : Replace(i, ok)
    \/ \E i \in Docs, ok \in BOOLEAN : FallbackOpen(i, ok)
    \/ \E i \in Docs, ok \in BOOLEAN : FallbackWrite(i, ok)
    \/ \E i \in Docs : CreationDebounceFires(i)

SpecCreate == InitCreate /\ [][NextCreate]_vars

\* ============================================= artifacts and their index
\* the TaskResult fields the context loader reads back
ArtifactResults == [success : {"true", "false"}, files_modified : {"[]", "[a.py]"}]

\* dict.get(key): None where the key is missing
Get(object, key) == IF key \in DOMAIN object THEN object[key] ELSE "null"

\* the truth value Python gives a JSON value
Truthy(value) == value \notin {"null", "false", "[]", ""}

\* the artifact document _write_artifacts builds
Artifact(task_id, result) ==
    [task_id |-> task_id, success |-> result.success,
     files_modified |-> result.files_modified]

\* _update_artifact_index(task_id, artifact_path): whatever JSON object
\* results/index.json holds is read, given the entry, and written back
UpdateArtifactIndex(dir, task_id, artifact_path) ==
    LET idx == IF dir["index"] = Missing THEN <<>> ELSE dir["index"]
    IN [dir EXCEPT !["index"] =
           [key \in DOMAIN idx \cup {task_id} |->
               IF key = task_id THEN artifact_path ELSE idx[key]]]

\* _write_artifacts(task_id, result): results/<task_id>.json, then the
\* index entry pointing to it
write_artifacts(dir, task_id, result) ==
    UpdateArtifactIndex([dir EXCEPT ![task_id] = Artifact(task_id, result)],
                        task_id, task_id)

EmptyContext == [summary |-> "", constraints |-> "{}", files_modified |-> "[]"]

\* load_compact_context(task_id): the artifact the index names if it
\* exists, else results/<task_id>.json if it exists, else nothing
load_compact_context(dir, task_id) ==
    LET p == IF dir["index"] = Missing THEN "null" ELSE Get(dir["index"], task_id)
        indexed == Truthy(p) /\ p \in Stems /\ dir[p] # Missing
        found == indexed \/ dir[task_id] # Missing
        data == IF indexed THEN dir[p] ELSE dir[task_id]
    IN IF ~found THEN EmptyContext
       ELSE [summary |-> "",
             constraints |-> IF Truthy(Get(data, "success")) THEN "prior_success: true"
                             ELSE "prior_success: false",
             files_modified |-> IF Truthy(Get(data, "files_modified"))
                                THEN Get(data, "files_modified") ELSE "[]"]

\* An orchestrator that only writes artifacts: the state after
\* construction, the results directory empty.
InitArtifacts ==
    /\ InitRetry

\* what the artifact writer does not touch
OrchestratorUntouched ==
    UNCHANGED <<running, files, processed_dir, state_json, pending_files,
                inflight_paths, task_queue, active_tasks, task_results,
                task_cancel_events, running_exec_tasks, last_event_ts,
                processed_files, worker, fs_writes, backoff_mult, direct, watch,
                pipe, stopping, creation, unit, writers, document>>

\* a worker writes the artifacts of a finished task
WriteArtifactsCall(task_id, result) ==
    /\ results_dir' = write_artifacts(results_dir, task_id, result)
    /\ OrchestratorUntouched

\* the operator removes an artifact file (the index is never pruned)
RemoveArtifact(task_id) ==
    /\ results_dir[task_id] # Missing
    /\ results_dir' = [results_dir EXCEPT ![task_id] = Missing]
    /\ OrchestratorUntouched

NextArtifacts ==
    \/ \E task_id \in TaskIds, result \in ArtifactResults :
          WriteArtifactsCall(task_id, result)
    \/ \E task_id \in TaskIds : RemoveArtifact(task_id)

SpecArtifacts == InitArtifacts /\ [][NextArtifacts]_vars

\* ============================================================== stop()
\* The started orchestrator of InitPipeline, no step of the pipeline
\* raising, and stop() called at any moment, once or more.
MaxIdleCalls == 1

InitStop ==
    /\ InitPipeline
    /\ pipe.faults = {}

\* a faulty variant of Gathered: the wait ends with the first worker
GatheredFirst(tasks, wk) == \E w \in tasks : wk[w].pc = "exited"

\* asyncio.gather(*tasks, return_exceptions=True) is over: every one of
\* the tasks has ended, however it ended
Gathered(tasks, wk) == \A w \in tasks : wk[w].pc = "exited"

\* stop() is called.  Not running: it returns at once.  Running: the flag
\* is cleared and stop() waits for the interface and the watcher to stop.
StopCall ==
    /\ IF ~running
       THEN /\ stopping.idle_calls < MaxIdleCalls
            /\ stopping' = [stopping EXCEPT !.idle_calls = @ + 1]
            /\ UNCHANGED running
       ELSE /\ running' = FALSE
            /\ stopping' = [stopping EXCEPT !.pc = "stopping_watcher"]
    /\ UNCHANGED <<files, processed_dir, state_json, pending_files, inflight_paths,
                   task_queue, active_tasks, task_results, task_cancel_events,
                   running_exec_tasks, last_event_ts, processed_files, worker,
                   fs_writes, backoff_mult, direct, watch, pipe, creation, results_dir, unit, writers, document>>

\* the watcher has stopped: `for worker in self.worker_tasks:
\* worker.cancel()`, which leaves a task that is done alone, then the
\* gather
StopCancel ==
    /\ stopping.pc = "stopping_watcher"
    /\ stopping' = [stopping EXCEPT
          !.pc = "gathering",
          !.cancel_requested = {w \in stopping.worker_tasks : worker[w].pc # "exited"}]
    /\ UNCHANGED <<running, files, processed_dir, state_json, pending_files,
                   inflight_paths, task_queue, active_tasks, task_results,
                   task_cancel_events, running_exec_tasks, last_event_ts,
                   processed_files, worker, fs_writes, backoff_mult, direct,
                   watch, pipe, creation, results_dir, unit, writers, document>>

\* the gather is over: the list is cleared and stop() returns
StopReturn ==
    /\ stopping.pc = "gathering"
    /\ Gathered(stopping.worker_tasks, worker)
    /\ stopping' = [stopping EXCEPT !.pc = "returned", !.worker_tasks = {},
                                    !.loops = 0]
    /\ UNCHANGED <<running, files, processed_dir, state_json, pending_files,
                   inflight_paths, task_queue, active_tasks, task_results,
                   task_cancel_events, running_exec_tasks, last_event_ts,
                   processed_files, worker, fs_writes, backoff_mult, direct,
                   watch, pipe, creation, results_dir, unit, writers, document>>

\* CancelledError is raised in worker w where it is suspended (queue.get,
\* asyncio.wait, the await of exec_task, the backoff sleep); no handler
\* inside process_task catches it, the `finally` of the wait cancels the
\* helper waiters, and `except asyncio.CancelledError: break` ends the
\* loop.  The task it was processing keeps its registry entries, its lock
\* and its pending entry.
Cancelled(w) ==
    /\ w \in stopping.cancel_requested
    /\ worker[w].pc \in {"idle", "waiting", "teardown", "backoff"}
    /\ worker' = [worker EXCEPT ![w] = EscapeCancelled(@)]
    /\ stopping' = [stopping EXCEPT !.cancel_requested = @ \ {w}]
    /\ UNCHANGED <<running, files, processed_dir, state_json, pending_files,
                   inflight_paths, task_queue, active_tasks, task_results,
                   task_cancel_events, running_exec_tasks, last_event_ts,
                   processed_files, fs_writes, backoff_mult, direct, watch, pipe, creation, results_dir, unit, writers, document>>

\* queue.get() hands worker w a task although the flag is cleared: the
\* worker was already waiting in it.  Where the cancellation arrives
\* between the completion of the get and the worker's next run,
\* asyncio.wait_for of Python <= 3.11 returns the task and the
\* cancellation is lost.
DequeueWhileStopping(w) ==
    /\ ~running
    /\ Take(w)
    /\ stopping' = [stopping EXCEPT !.cancel_requested = @ \ {w}]

\* `while self.running` ends the loop of a worker that finished its task
\* or whose queue.get() timed out
LoopExit(w) ==
    /\ ~running
    /\ worker[w].pc = "idle"
    /\ w \notin stopping.cancel_requested
    /\ worker' = [worker EXCEPT ![w].pc = "exited"]
    /\ UNCHANGED <<running, files, processed_dir, state_json, pending_files,
                   inflight_paths, task_queue, active_tasks, task_results,
                   task_cancel_events, running_exec_tasks, last_event_ts,
                   processed_files, fs_writes, backoff_mult, direct, watch, pipe,
                   stopping, creation, results_dir, unit, writers, document>>

\* the steps of worker w while no cancellation is pending for it
WorkerStep(w) ==
    /\ w \notin stopping.cancel_requested
    /\ \/ PipeDequeue(w)
       \/ \E e \in ExecStates, cw \in WaiterStates, tw \in WaiterStates :
             PipeWake(w, e, cw, tw)
       \/ \E e \in ExecStates : PipeAfterTeardown(w, e)
       \/ PipeBackoffDone(w)

\* start() is called on the running orchestrator (a stopped one is not
\* started again: main.py stops it on exit only)
StartCall ==
    /\ running
    /\ stopping.idle_starts < MaxIdleCalls
    /\ stopping' = [stopping EXCEPT !.loops = WorkersAfterStart(running, @),
                                    !.idle_starts = @ + 1]
    /\ UNCHANGED <<running, files, processed_dir, state_json, pending_files,
                   inflight_paths, task_queue, active_tasks, task_results,
                   task_cancel_events, running_exec_tasks, last_event_ts,
                   processed_files, worker, fs_writes, backoff_mult, direct,
                   watch, pipe, creation, results_dir, unit, writers, document>>

NextStop ==
    \/ StartCall
    \/ StopCall
    \/ StopCancel
    \/ StopReturn
    \/ CancelTask(1)
    \/ \E w \in Workers : WorkerStep(w)
    \/ \E w \in Workers : Cancelled(w)
    \/ \E w \in Workers : DequeueWhileStopping(w)
    \/ \E w \in Workers : LoopExit(w)

\* The event loop runs every task that is ready, and the executor
\* finishes, is torn down or is timed out: each continuation that stays
\* enabled is taken.
SpecStop ==
    /\ InitStop
    /\ [][NextStop]_vars
    /\ WF_vars(StopCancel)
    /\ WF_vars(StopReturn)
    /\ \A w \in Workers :
          /\ WF_vars(WorkerStep(w))
          /\ WF_vars(Cancelled(w))
          /\ WF_vars(DequeueWhileStopping(w))
          /\ WF_vars(LoopExit(w))

\* ================================================================ claims
\* helpers of the properties below
Processing(w) == worker[w].pc \in {"waiting", "teardown", "backoff"}
LiveWorkers == {w \in Workers : worker[w].pc \notin {"not_started", "exited"}}
QueuedTimes(queue, p) == Cardinality({n \in DOMAIN queue : queue[n].path = p})
Returned == direct.call.pc = "returned"
AllTransient(outcomes) == \A n \in DOMAIN outcomes : outcomes[n] = "transient_marker"
RECURSIVE Pow(_, _)
Pow(b, n) == IF n = 0 THEN 1 ELSE b * Pow(b, n - 1)
\* E_k = base_delay * backoff_multiplier^(k-1), in seconds
Expected(k) == BaseDelay * Pow(backoff_mult, k - 1)
\* the k-th delay slept (quarters of a second) lies in [0.75*E_k, 1.5*E_k]
InBand(k) == 3 * Expected(k) <= direct.slept[k] /\ direct.slept[k] <= 6 * Expected(k)

\* C1: when the timeout elapses on a running attempt and no cancellation
\* has been requested, process_task, once the teardown of the unit it
\* cancelled is over, returns to the worker the TaskResult with errors
\* 'timeout after Ns' (no exception escapes), and no further attempt starts.
TimeoutReturnsTimeoutResult ==
    [][\A w \in Workers :
          (/\ worker[w].pc = "teardown"
           /\ worker[w].branch = "timeout"
           /\ ~HeldEventSet(w)
           /\ worker'[w].pc # "teardown")
          => (/\ worker'[w].pc = "idle"
              /\ task_results'[worker[w].id] = TimeoutResult)]_vars

\* C2: when cancel_task(id) is called while an attempt of task id is in
\* flight, process_task returns to the worker the TaskResult with errors
\* 'cancelled' (no exception escapes), and no further attempt starts.
CancelReturnsCancelledResult ==
    [][\A w \in Workers :
          (/\ worker[w].pc \in {"waiting", "teardown"}
           /\ worker[w].branch # "timeout"
           /\ worker[w].exec = "cancelling"
           /\ HeldEventSet(w)
           /\ worker'[w].pc \notin {"waiting", "teardown"})
          => (/\ worker'[w].pc = "idle"
              /\ task_results'[worker[w].id] = CancelledResult)]_vars

\* C3: for one attempt, when the cancellation was seen by the time the
\* wait ended (requested before the timeout fired) the terminal result's
\* error is 'cancelled'; when the timeout ended the wait and no
\* cancellation was requested it is 'timeout after Ns'.
CancelBeatsTimeout ==
    [][\A w \in Workers :
          (worker[w].pc = "teardown" /\ worker'[w].pc # "teardown")
          => /\ worker'[w].pc = "idle"
             /\ worker[w].cancel_waiter = "done"
                   => task_results'[worker[w].id].errors = "cancelled"
             /\ (worker[w].cancel_waiter # "done" /\ ~HeldEventSet(w))
                   => task_results'[worker[w].id].errors = "timeout after Ns"]_vars

\* C4: while the orchestrator is running, the number of live worker loops
\* never drops below max_concurrent_tasks.
WorkersStayAlive ==
    running => Cardinality(LiveWorkers) >= MaxConcurrentTasks

\* C5: at no time do two worker loops execute process_task for the same
\* task id.
OneWorkerPerTaskId ==
    \A w1, w2 \in Workers :
        (w1 # w2 /\ Processing(w1) /\ Processing(w2)) => worker[w1].id # worker[w2].id

\* C10: at startup every pending path that holds a task document is queued
\* exactly once and every pending path that is missing or archived leaves
\* the pending set unprocessed; the startup scan's notification of a path
\* in flight queues nothing; and once a worker is through with a task its
\* path is no longer in logs/state.json.
ResumeExactlyOnce ==
    [][/\ (~running /\ running') =>
             \A p \in pending_files :
                 IF p \in Docs /\ files[p] \in Ids
                 THEN QueuedTimes(task_queue', p) = 1 /\ p \in state_json'
                 ELSE QueuedTimes(task_queue', p) = 0 /\ p \notin state_json'
       /\ \A p \in Docs :
             (p \in last_event_ts /\ p \notin last_event_ts' /\ p \in inflight_paths)
             => task_queue' = task_queue
       /\ \A w \in Workers :
             (Processing(w) /\ ~Processing(w)') => worker[w].path \notin state_json'
      ]_vars

\* C6: if the first k attempts (1 <= k <= max_retries) each fail with a
\* transient marker and attempt k+1 succeeds, process_task returns
\* success=true with retries = k, having made exactly k+1 attempts.
RetriesCountTransientFailures ==
    \A k \in 1..MaxRetries :
        (/\ Len(direct.calls) >= k + 1
         /\ AllTransient(SubSeq(direct.calls, 1, k))
         /\ direct.calls[k + 1] = "ok")
        => (/\ Returned
            /\ Len(direct.calls) = k + 1
            /\ direct.call.result.success
            /\ direct.call.result.retries = k)
RetriedThenSucceeded ==
    Returned /\ direct.calls = <<"transient_marker", "transient_marker", "ok">>

\* C7: an unsuccessful attempt without a transient marker is classified
\* 'fatal' and ends the loop; when it is the first attempt, process_task
\* has made exactly one attempt and returns success=false with retries = 0.
FatalIsNeverRetried ==
    \A n \in DOMAIN direct.calls :
        direct.calls[n] = "no_marker"
        => (/\ n = Len(direct.calls)
            /\ Returned
            /\ ~direct.call.result.success
            /\ direct.call.result.error_class = "fatal"
            /\ direct.call.result.retries = n - 1
            /\ n = 1 => direct.call.result.retries = 0)
FailedFatallyAtOnce ==
    Returned /\ direct.calls = <<"no_marker">>

\* C8: with an executor that fails with a transient marker on every
\* attempt the retry loop ends: never more than max_retries + 1 attempts
\* and max_retries sleeps, and after attempt max_retries + 1 the result is
\* a failure with retries = max_retries and error_class 'transient'.
RetriesAreBounded ==
    /\ Len(direct.calls) <= MaxRetries + 1
    /\ direct.call.attempt <= MaxRetries + 1
    /\ Len(direct.slept) <= MaxRetries
    /\ (AllTransient(direct.calls) /\ Len(direct.calls) = MaxRetries + 1)
       => (/\ Returned
           /\ ~direct.call.result.success
           /\ direct.call.result.retries = MaxRetries
           /\ direct.call.result.error_class = "transient")
RetriesExhausted ==
    Returned /\ AllTransient(direct.calls) /\ Len(direct.calls) = MaxRetries + 1

\* C9 as stated: every k-th backoff delay lies in [0.75*E_k, 1.5*E_k] and
\* the sequence of delays is non-decreasing, for every jitter and every
\* admitted backoff multiplier.
DelaysInBandAndNonDecreasing ==
    \A k \in DOMAIN direct.slept :
        /\ InBand(k)
        /\ k > 1 => direct.slept[k - 1] <= direct.slept[k]

\* C9 amended: every k-th backoff delay lies in [0.75*E_k, 1.5*E_k]; the
\* sequence of delays is non-decreasing when the backoff multiplier is at
\* least 2.
DelaysInBandNonDecreasingFromTwo ==
    \A k \in DOMAIN direct.slept :
        /\ InBand(k)
        /\ (backoff_mult >= 2 /\ k > 1) => direct.slept[k - 1] <= direct.slept[k]
SleptEveryBackoff ==
    backoff_mult >= 2 /\ Len(direct.slept) = MaxRetries

PendingRemovedOnlyWhenSettled ==
    [][\A p \in Paths :
          (p \in pending_files /\ p \notin pending_files')
          => \/ p \in Docs /\ files[p] # Absent /\ files'[p] = Absent
             \/ p \in Docs /\ p \notin inflight_paths /\ files[p] = Invalid
             \/ /\ ~running /\ running'
                /\ p = ArchivedPath \/ files[p] = Absent]_vars

\* C13: when the notifications delivered for a path all arrived within
\* one debounce window, the ingestion callback has fired at most once for
\* the path, and exactly once when every scheduled check has run.
DebounceFiresOnce ==
    \A p \in Docs :
        (watch.notes[p] >= 1 /\ watch.last[p] - watch.first[p] < DebounceSeconds)
        => /\ watch.calls[p] <= 1
           /\ (\A t \in watch.timers : t.path # p) => watch.calls[p] = 1

IngestionOf(p) ==
    \/ p \in last_event_ts /\ p \notin last_event_ts'
    \/ ~running /\ running' /\ p \in pending_files

CancelledWhileQueuedNeverRuns ==
    [][\A w \in Workers :
          (/\ running /\ NextGetter(w)
           /\ task_queue # <<>> /\ task_queue' = Tail(task_queue)
           /\ task_cancel_events[Head(task_queue).id] = "set")
          => /\ worker'[w].pc = "idle"
             /\ worker'[w].id = Head(task_queue).id
             /\ worker'[w].status = "failed"
             /\ worker'[w].log = <<"cancelled">>
             /\ worker'[w].exec = "none"
             /\ running_exec_tasks' = running_exec_tasks
             /\ task_results' = task_results]_vars
DroppedAtDequeue ==
    \E w \in Workers : worker[w].pc = "idle" /\ worker[w].log = <<"cancelled">>

\* C17: when a worker dequeues a task whose cancellation flag is already
\* set, the task's source file is moved to tasks/processed tagged failed,
\* its pending entry is cleared, its cancellation-registry entry is
\* released and the task has left the queue.
CancelledWhileQueuedIsArchived ==
    [][\A w \in Workers :
          (/\ running /\ NextGetter(w)
           /\ task_queue # <<>> /\ task_queue' = Tail(task_queue)
           /\ task_cancel_events[Head(task_queue).id] = "set")
          => LET t == Head(task_queue)
             IN /\ files'[t.path] = Absent
                /\ <<t.id, "failed">> \in processed_dir'
                /\ t.path \notin pending_files'
                /\ task_cancel_events'[t.id] = "none"]_vars

\* C18: cancel_task(i) is idempotent.  A call that finds the flag of i set
\* changes neither the registry nor any execution unit, emits nothing and
\* returns false, and so does a call that follows another call; a call
\* that returns true has set the flag, has requested the cancellation of
\* the execution unit in flight for i and has emitted one
\* 'cancel_requested'.
CancelTaskIdempotent ==
    \A i \in Ids :
        LET first == cancel_task(Cancellation, i)
            again == cancel_task([events |-> first.events, worker |-> first.worker], i)
        IN /\ again.events = first.events
           /\ again.worker = first.worker
           /\ again.emitted = <<>>
           /\ ~again.ret
           /\ task_cancel_events[i] = "set"
              => first.events = task_cancel_events /\ first.worker = worker
           /\ first.ret
              => /\ first.events[i] = "set"
                 /\ first.emitted = <<"cancel_requested">>
                 /\ \A w \in Workers :
                       (running_exec_tasks[i] = w /\ worker[w].exec = "running")
                       => first.worker[w].exec = "cancelling"
CancelRequestedTwice ==
    \E i \in Ids, w \in Workers :
        /\ task_cancel_events[i] = "set"
        /\ running_exec_tasks[i] = w
        /\ worker[w].id = i
        /\ worker[w].exec = "cancelling"

\* task id i names a live task: one that is queued or being processed
Live(i) ==
    \/ \E n \in DOMAIN task_queue : task_queue[n].id = i
    \/ \E w \in Workers : Processing(w) /\ worker[w].id = i

\* C19: cancel_task(i) returns true only when i names a live task, and it
\* does return true for a live task whose cancellation was not requested
\* yet; for an unknown id and for a finished task it returns false.
CancelTaskReturnsLiveness ==
    \A i \in Ids :
        LET c == cancel_task(Cancellation, i)
        IN /\ c.ret => Live(i)
           /\ (Live(i) /\ task_cancel_events[i] # "set") => c.ret

\* C20: at every moment the active-task map and the cancellation registry
\* hold only ids of tasks that are queued or being processed, and no
\* running-execution handle is registered for any other id.
OnlyLiveTasksAreTracked ==
    \A i \in Ids :
        (i \in active_tasks \/ task_cancel_events[i] # "none" \/ running_exec_tasks[i] # 0)
        => Live(i)

\* place of an event in the pipeline order; 0 for the other events
Rank(ev) ==
    CASE ev = "claude_started" -> 1
      [] ev = "retry" -> 2
      [] ev = "claude_finished" -> 3
      [] ev = "artifacts_written" -> 4
      [] ev = "task_archived" -> 5
      [] OTHER -> 0
\* some line before line b of the log has rank r
Preceded(log, b, r) == \E a \in 1..(b - 1) : Rank(log[a]) = r

\* C21: the events logged for the task follow the pipeline order
\* claude_started, retry*, claude_finished, artifacts_written,
\* task_archived: no event of the order comes after a later one, each but
\* retry is logged at most once, and while the event log is writable
\* every logged event has its predecessor before it (artifacts_written
\* may be missing before task_archived only when the artifact write
\* failed and artifacts_error stands in its place).
EventsInPipelineOrder ==
    LET log == pipe.events
    IN /\ \A a, b \in DOMAIN log :
             (a < b /\ Rank(log[a]) > 0 /\ Rank(log[b]) > 0)
             => /\ Rank(log[a]) <= Rank(log[b])
                /\ Rank(log[a]) = Rank(log[b]) => log[a] = "retry"
       /\ \A b \in DOMAIN log :
             /\ Rank(log[b]) \in {2, 3} => Preceded(log, b, 1)
             /\ Rank(log[b]) \in {4, 5} => Preceded(log, b, 3)
             /\ Rank(log[b]) = 5
                => \/ Preceded(log, b, 4)
                   \/ \E a \in 1..(b - 1) : log[a] = "artifacts_error"
RetriedFinishedArchived ==
    pipe.events = <<"claude_started", "retry", "summarized", "validated",
                    "claude_finished", "artifacts_written", "task_archived">>

\* the worker is through with the task: task_done() was called for it
Terminal == pipe.done >= 1

\* C22: once the task is terminal, whatever the cause, results/index.json
\* maps its id to an artifact file that exists and records that id
\* (unless the write of the artifact or of the index itself failed).
TerminalTaskHasIndexedArtifact ==
    (Terminal /\ pipe.faults \cap {"artifact", "index"} = {})
    => pipe.index = 1 /\ pipe.artifact.task_id = 1

\* C23: when summarization or validation raised after the last execution
\* attempt, process_task has still returned the TaskResult of that
\* attempt: same success flag, errors, retries and error_class.
PostStepsNeverFailThePipeline ==
    (/\ Terminal
     /\ pipe.last_unit # NoResult
     /\ pipe.faults \cap {"summarize", "validate"} # {})
    => pipe.returned = pipe.last_unit

\* C24: when the mediator raises, no execution attempt is ever launched
\* and nothing is retried, and the result process_task returned is the
\* failed one whose only error is the exception message.
EnrichmentFailureIsTerminal ==
    "mediator" \in pipe.faults
    => /\ \A w \in Workers : ~Processing(w)
       /\ pipe.attempts = 0
       /\ running_exec_tasks[1] = 0
       /\ \A n \in DOMAIN pipe.events : pipe.events[n] # "retry"
       /\ pipe.returned \in {NoResult, ExceptionResult}
       /\ (Terminal /\ \A w \in Workers : worker[w].log # <<"cancelled">>)
          => pipe.returned = ExceptionResult /\ task_results[1] = ExceptionResult
EnrichmentFailed ==
    /\ "mediator" \in pipe.faults
    /\ Terminal
    /\ pipe.returned = ExceptionResult
    /\ pipe.status = "failed"

\* C25: the TaskResult process_task returned carries a retries value
\* equal to the execution attempts started minus one (0 when none was
\* started) and an error_class among none, transient and fatal.
ResultCarriesRetryMetadata ==
    pipe.returned # NoResult
    => /\ pipe.returned.error_class \in {"none", "transient", "fatal"}
       /\ pipe.returned.retries = IF pipe.attempts = 0 THEN 0 ELSE pipe.attempts - 1

\* C26: whatever infrastructure steps fail, the step in which the worker
\* finishes the task stores the result process_task returned, sets the
\* status that result implies, releases lock, pending entry and registry
\* entries, marks the dequeue complete and leaves the worker waiting for
\* the next task; the source file is archived under that status unless
\* the move itself failed.
InfrastructureFailuresAreContained ==
    [][(pipe'.done = pipe.done + 1 /\ pipe'.returned # NoResult)
       => /\ task_results'[1] = pipe'.returned
          /\ pipe'.status = FinalStatus(pipe'.returned)
          /\ 1 \notin inflight_paths'
          /\ 1 \notin pending_files'
          /\ task_cancel_events'[1] = "none"
          /\ running_exec_tasks'[1] = 0
          /\ \A w \in Workers : worker'[w].pc = "idle"
          /\ "archive" \notin pipe.faults
             => files'[1] = Absent /\ <<1, pipe'.status>> \in processed_dir'
          /\ "archive" \in pipe.faults => files'[1] = files[1]]_vars
SucceededDespiteFailures ==
    /\ InfrastructureSites \subseteq pipe.faults
    /\ Terminal
    /\ pipe.returned.success
    /\ pipe.status = "completed"
    /\ task_results[1].success

\* C27: stop() on a running orchestrator clears the running flag before
\* it cancels, cancels every worker loop that is alive, returns only with
\* every worker loop ended and the worker list empty, and does return;
\* stop() on an orchestrator that is not running changes nothing.
StopTerminates ==
    /\ [][stopping'.cancel_requested \ stopping.cancel_requested # {}
          => /\ ~running
             /\ stopping'.cancel_requested =
                   {w \in Workers : worker[w].pc \notin {"not_started", "exited"}}]_vars
    /\ [](stopping.pc = "returned"
          => /\ ~running
             /\ \A w \in Workers : worker[w].pc = "exited"
             /\ stopping.worker_tasks = {})
    /\ [][stopping'.idle_calls # stopping.idle_calls
          => UNCHANGED <<running, files, processed_dir, state_json, pending_files,
                         inflight_paths, task_queue, active_tasks, task_results,
                         task_cancel_events, running_exec_tasks, worker, pipe>>
             /\ stopping'.worker_tasks = stopping.worker_tasks
             /\ stopping'.pc = stopping.pc]_vars
    /\ (stopping.pc = "stopping_watcher") ~> (stopping.pc = "returned")
StoppedWhileProcessing ==
    /\ stopping.pc = "returned"
    /\ stopping.idle_calls = 1
    /\ \E w \in Workers : worker[w].id = 1 /\ worker[w].attempt = 0
                          /\ running_exec_tasks[1] = w

\* C28: whenever the ingestion callback is invoked for a document that
\* create_task_from_description writes, the document holds its complete
\* content, on every path through the function.
NeverIngestsPartialDocument ==
    \A i \in Docs : \A k \in DOMAIN creation[i].callbacks :
        creation[i].callbacks[k] = "complete"

\* C29: in every state of the results directory and for every task id
\* and result, after _write_artifacts(task_id, result) the index maps
\* task_id to results/<task_id>.json and keeps the entries of the other
\* ids, and load_compact_context(task_id) returns the result's success as
\* prior_success and its files_modified; for a task id without an
\* artifact load_compact_context returns the empty context.
IndexAndContextFollowArtifacts ==
    /\ \A task_id \in TaskIds, result \in ArtifactResults :
          LET before == IF results_dir["index"] = Missing THEN <<>>
                        ELSE results_dir["index"]
              after == write_artifacts(results_dir, task_id, result)
              ctx == load_compact_context(after, task_id)
          IN /\ Get(after["index"], task_id) = task_id
             /\ \A other \in TaskIds \ {task_id} :
                   Get(after["index"], other) = Get(before, other)
             /\ ctx.constraints = IF result.success = "true" THEN "prior_success: true"
                                  ELSE "prior_success: false"
             /\ ctx.files_modified = result.files_modified
    /\ \A task_id \in TaskIds :
          results_dir[task_id] = Missing
          => load_compact_context(results_dir, task_id) = EmptyContext

\* C30: under fairness the queued task is eventually dequeued and ends
\* completed or failed with its result stored, whatever the outcome of
\* each of its execution attempts (a result, a cancellation, a timeout).
QueuedTaskEventuallySettles ==
    (task_queue # <<>>)
    ~> (/\ pipe.done >= 1
        /\ pipe.status \in {"completed", "failed"}
        /\ task_results[1] # NoResult)

\* C31: once the cancel flag of the task is set, no further execution
\* attempt is launched for it, the backoff sleep between two attempts
\* included.
CancelStopsFurtherAttempts ==
    [][task_cancel_events[1] = "set" => pipe'.attempts = pipe.attempts]_vars

\* C32: a worker that is not waiting on an execution attempt (nor on the
\* attempt's teardown) has left nothing of an attempt running: its
\* exec_task is finished or cancelled and neither helper waiter is
\* pending, stop() cancelling the worker included.
AttemptLeavesNothingRunning ==
    \A w \in Workers :
        worker[w].pc \notin {"waiting", "teardown"}
        => /\ worker[w].exec # "running"
           /\ worker[w].cancel_waiter # "pending"
           /\ worker[w].timeout_waiter # "pending"

\* C33: the queue changes only by tasks appended at its tail or by its
\* head being taken, whatever the priorities of the tasks in it; the
\* task taken goes to one worker and to no other.
FifoOneWorkerEach ==
    [][task_queue' # task_queue
       => \/ /\ Len(task_queue') > Len(task_queue)
             /\ SubSeq(task_queue', 1, Len(task_queue)) = task_queue
          \/ /\ task_queue # <<>>
             /\ task_queue' = Tail(task_queue)
             /\ Cardinality({w \in Workers : worker'[w] # worker[w]}) <= 1
             /\ \A w \in Workers :
                   worker'[w] # worker[w]
                   => /\ worker'[w].id = Head(task_queue).id
                      /\ worker'[w].path = Head(task_queue).path]_vars
LowPriorityServedFirst ==
    /\ task_queue # <<>>
    /\ Priority(Head(task_queue).id) = "high"
    /\ \E w \in Workers : /\ Processing(w)
                          /\ Priority(worker[w].id) = "low"
                          /\ \E v \in Workers : v # w /\ worker[v].pc = "idle"

StatusOfTask ==
    IF Terminal THEN pipe.status
    ELSE IF \E w \in Workers : worker[w].id = 1 /\ worker[w].status = "processing"
    THEN "processing"
    ELSE "pending"
StatusRank(st) ==
    IF st = "pending" THEN 0 ELSE IF st = "processing" THEN 1 ELSE 2

\* C35: the status of the task never moves back along pending,
\* processing, completed | failed and never changes once it is completed
\* or failed; it is completed exactly when the stored TaskResult has
\* success = TRUE; and a file archived for the task carries that status
\* in its name.
StatusMovesForward ==
    /\ [][/\ StatusRank(StatusOfTask') >= StatusRank(StatusOfTask)
          /\ StatusRank(StatusOfTask) = 2 => StatusOfTask' = StatusOfTask]_vars
    /\ [](/\ StatusOfTask \in {"pending", "processing", "completed", "failed"}
          /\ StatusOfTask = "completed" <=> task_results[1].success
          /\ \A f \in processed_dir :
                f[1] = 1 => StatusRank(StatusOfTask) = 2 /\ f[2] = StatusOfTask)
ArchivedAsFailed ==
    /\ Terminal
    /\ pipe.attempts >= 1
    /\ <<1, StatusOfTask>> \in processed_dir
    /\ StatusOfTask = "failed"
    /\ ~task_results[1].success
    /\ task_results[1] # NoResult

\* ------------------------------------------- classification of one attempt
\* The texts are sequences of characters, so that lower() and the substring
\* test of _classify_error are computed and not assumed.
UpperCase == <<"A", "B", "C", "D", "E", "F", "G", "H", "I", "J", "K", "L", "M",
               "N", "O", "P", "Q", "R", "S", "T", "U", "V", "W", "X", "Y", "Z">>
LowerCase == <<"a", "b", "c", "d", "e", "f", "g", "h", "i", "j", "k", "l", "m",
               "n", "o", "p", "q", "r", "s", "t", "u", "v", "w", "x", "y", "z">>

\* str.lower() of one character
LowerChar(c) ==
    IF \E i \in DOMAIN UpperCase : UpperCase[i] = c
    THEN LowerCase[CHOOSE i \in DOMAIN UpperCase : UpperCase[i] = c]
    ELSE c

\* str.lower()
Lower(text) == [i \in DOMAIN text |-> LowerChar(text[i])]

\* the Python test  marker in text
Contains(text, marker) ==
    \E i \in 1..(Len(text) - Len(marker) + 1) :
        SubSeq(text, i, i + Len(marker) - 1) = marker

\* transient_markers of _classify_error
transient_markers ==
    { <<"r","a","t","e"," ","l","i","m","i","t">>,
      <<"r","a","t","e","-","l","i","m","i","t">>,
      <<"t","o","o"," ","m","a","n","y"," ","r","e","q","u","e","s","t","s">>,
      <<"t","e","m","p","o","r","a","r","i","l","y"," ","u","n","a","v","a","i","l","a","b","l","e">>,
      <<"t","i","m","e","o","u","t">>,
      <<"t","i","m","e","d"," ","o","u","t">>,
      <<"c","o","n","n","e","c","t","i","o","n"," ","r","e","s","e","t">>,
      <<"c","o","n","n","e","c","t","i","o","n"," ","a","b","o","r","t","e","d">>,
      <<"5","0","3">>,
      <<"5","0","4">>,
      <<"n","e","t","w","o","r","k"," ","e","r","r","o","r">>,
      <<"r","e","t","r","y"," ","l","a","t","e","r">> }

\* the Python expression  x or ""
OrEmpty(x) == IF x = NoneValue THEN <<>> ELSE x

\* the texts a bridge result carries in the model: None, "", "503",
\* "Rate Limit", "rate", "limit", "err 504", "TimeOut"
RawTexts ==
    { NoneValue,
      <<>>,
      <<"5","0","3">>,
      <<"R","a","t","e"," ","L","i","m","i","t">>,
      <<"r","a","t","e">>,
      <<"l","i","m","i","t">>,
      <<"e","r","r"," ","5","0","4">>,
      <<"T","i","m","e","O","u","t">> }

\* the TaskResult fields _classify_error reads
BridgeResults ==
    [success : BOOLEAN, raw_stdout : RawTexts, raw_stderr : RawTexts]

\* a classification that does not look at result.success
ClassifyIgnoringSuccess(result) ==
    LET text == OrEmpty(result.raw_stderr) \o <<"\n">> \o OrEmpty(result.raw_stdout)
    IN IF \E marker \in transient_markers : Contains(Lower(text), marker)
       THEN "transient" ELSE "fatal"

\* TaskOrchestrator._classify_error
classify_error(result) ==
    IF result.success THEN "none"
    ELSE LET text == OrEmpty(result.raw_stderr) \o <<"\n">> \o OrEmpty(result.raw_stdout)
             text_lower == Lower(text)
         IN IF \E marker \in transient_markers : Contains(text_lower, marker)
            THEN "transient" ELSE "fatal"

\* everything but the attempt under classification
RetryLoopOnly ==
    UNCHANGED <<running, files, processed_dir, state_json, pending_files, inflight_paths,
                task_queue, active_tasks, task_results, task_cancel_events,
                running_exec_tasks, last_event_ts, processed_files, worker, fs_writes,
                backoff_mult, direct, watch, pipe, stopping, creation, results_dir, writers, document>>

\* attempt += 1; exec_task ends first and result = exec_task.result()
AttemptReturns ==
    /\ unit.pc \in {"idle", "retrying"}
    /\ \E result \in BridgeResults :
           unit' = [unit EXCEPT !.pc = "executed", !.attempt = @ + 1,
                                !.result = result, !.error_class = "unset"]
    /\ RetryLoopOnly

\* error_class = self._classify_error(result); result.retries = attempt - 1
ClassifyAttempt ==
    /\ unit.pc = "executed"
    /\ unit' = [unit EXCEPT !.pc = "classified",
                            !.error_class = classify_error(unit.result),
                            !.retries = RetriesOf(unit.attempt)]
    /\ RetryLoopOnly

\* the branch that sleeps and continues
RetryAttempt ==
    /\ unit.pc = "classified"
    /\ ShouldRetry(unit.error_class, unit.attempt, unit.result.success)
    /\ unit' = [unit EXCEPT !.pc = "retrying"]
    /\ RetryLoopOnly

\* the branch that breaks out of the loop
BreakAttempt ==
    /\ unit.pc = "classified"
    /\ ~ShouldRetry(unit.error_class, unit.attempt, unit.result.success)
    /\ unit' = [unit EXCEPT !.pc = "done"]
    /\ RetryLoopOnly

NextClassify ==
    \/ AttemptReturns
    \/ ClassifyAttempt
    \/ RetryAttempt
    \/ BreakAttempt

SpecClassify == InitRetry /\ [][NextClassify]_vars

\* the text, whichever its case, holds one of the transient markers
HoldsMarkerInAnyCase(text) ==
    \E marker \in transient_markers :
        \E i \in 1..(Len(text) - Len(marker) + 1) :
            \A k \in 1..Len(marker) : LowerChar(text[i + k - 1]) = marker[k]

\* C36: a successful attempt is classified "none" and ends the retry loop
\* even when its stdout or stderr holds a transient marker; an attempt is
\* retried only if it is unsuccessful, classified "transient" because its
\* stdout or its stderr holds a marker in some case, and its number is at
\* most max_retries.
SuccessEndsRetryLoop ==
    /\ [](unit.pc \in {"classified", "retrying", "done"} /\ unit.result.success
            => unit.error_class = "none" /\ unit.pc # "retrying")
    /\ [](unit.pc = "retrying"
            => /\ ~unit.result.success
               /\ unit.error_class = "transient"
               /\ \/ HoldsMarkerInAnyCase(OrEmpty(unit.result.raw_stdout))
                  \/ HoldsMarkerInAnyCase(OrEmpty(unit.result.raw_stderr))
               /\ unit.attempt <= MaxRetries)
    /\ [][unit.pc = "classified" /\ unit.result.success => unit'.pc = "done"]_vars

\* a successful first attempt whose stdout says "Rate Limit" ended the loop
SuccessWithMarkerNotRetried ==
    /\ unit.pc = "done"
    /\ unit.attempt = 1
    /\ unit.result.success
    /\ unit.result.raw_stdout = <<"R","a","t","e"," ","L","i","m","i","t">>
    /\ unit.error_class = "none"

\* --------------------------------- workers writing artifacts side by side
\* what a worker at the end of its task does not touch in the model
WritersOnly ==
    UNCHANGED <<running, files, processed_dir, state_json, pending_files,
                inflight_paths, task_queue, active_tasks, task_results,
                task_cancel_events, running_exec_tasks, last_event_ts,
                processed_files, worker, fs_writes, backoff_mult, direct, watch,
                pipe, stopping, creation, unit, document>>

\* task = await self.task_queue.get(): the queue hands a task to one
\* worker only, so no two workers hold the same task
WorkerTakesTask(w, task_id) ==
    /\ writers[w].pc = "idle"
    /\ \A v \in Workers : writers[v].task_id # task_id
    /\ writers' = [writers EXCEPT ![w].pc = "processing", ![w].task_id = task_id]
    /\ UNCHANGED results_dir
    /\ WritersOnly

\* result = await self.process_task(task): the worker is suspended until
\* then, and other workers run
ProcessTaskReturns(w, result) ==
    /\ writers[w].pc = "processing"
    /\ writers' = [writers EXCEPT ![w].pc = "finished", ![w].result = result]
    /\ UNCHANGED results_dir
    /\ WritersOnly

\* self._write_artifacts(task.id, result): a synchronous call, no await
\* between the read of index.json and its write
WorkerWritesArtifacts(w) ==
    /\ writers[w].pc = "finished"
    /\ results_dir' = write_artifacts(results_dir, writers[w].task_id, writers[w].result)
    /\ writers' = [writers EXCEPT ![w].pc = "written"]
    /\ WritersOnly

NextWriters ==
    \/ \E w \in Workers, task_id \in TaskIds : WorkerTakesTask(w, task_id)
    \/ \E w \in Workers, result \in ArtifactResults : ProcessTaskReturns(w, result)
    \/ \E w \in Workers : WorkerWritesArtifacts(w)

SpecWriters == InitRetry /\ [][NextWriters]_vars

\* C37: when several workers finish different tasks in any interleaving,
\* no update of results/index.json by one worker overwrites the entry of
\* another: once all of them have written, the index has an entry for
\* every one of their task ids.
IndexKeepsEveryWorkersEntry ==
    (\A w \in Workers : writers[w].pc = "written")
    => /\ results_dir["index"] # Missing
       /\ \A w \in Workers :
             Get(results_dir["index"], writers[w].task_id) = writers[w].task_id

\* --------------------------------------- documents that make ingestion raise
\* The orchestrator before its first start(), nothing persisted, the inbox
\* holding any documents, those with a frontmatter that is no mapping
\* included.
InitIngest ==
    /\ files \in [Docs -> Contents \cup {NotMapping}]
    /\ \A p \in Docs : files[p] \in ContentsAt(p) \cup {NotMapping}
    /\ state_json = {}
    /\ pending_files = {}
    /\ running = FALSE
    /\ processed_dir = {}
    /\ inflight_paths = {}
    /\ task_queue = <<>>
    /\ active_tasks = {}
    /\ task_results = [i \in Ids |-> NoResult]
    /\ task_cancel_events = [i \in Ids |-> "none"]
    /\ running_exec_tasks = [i \in Ids |-> 0]
    /\ last_event_ts = {}
    /\ processed_files = {}
    /\ worker = [w \in Workers |-> [IdleWorker EXCEPT !.pc = "not_started"]]
    /\ fs_writes = 0
    /\ backoff_mult = ClampMult(BackoffMultiplier)
    /\ direct = NotCalled
    /\ watch = Untimed
    /\ pipe = NoTrace
    /\ stopping = NotStopping
    /\ creation = NotCreating
    /\ results_dir = EmptyResultsDir
    /\ unit = NoUnit
    /\ writers = NoWriters
    /\ document = NoDocument

SpecIngest == InitIngest /\ [][Next]_vars

\* the path is the source path of a task that is queued or that a worker holds
PathIsLive(p) ==
    \/ \E k \in DOMAIN task_queue : task_queue[k].path = p
    \/ \E w \in Workers :
          /\ worker[w].pc \in {"waiting", "teardown", "backoff"}
          /\ worker[w].path = p

\* C38: once the startup resume has finished, every path in the pending
\* set is the source path of a task that is queued or being processed: a
\* path whose ingestion was abandoned (format errors, or an exception
\* while validating, parsing or queueing) is not left in the pending set.
PendingPathsAreLive ==
    running => \A p \in pending_files : PathIsLive(p)

\* C39: every path in the in-flight lock set belongs to a task that is
\* queued or held by a live worker: when a worker stops handling a task
\* for any reason (completion, cancellation before start, an exception in
\* the worker loop, the worker itself being cancelled) the lock of the
\* task's path is released.
InflightPathsAreLive ==
    \A p \in inflight_paths : PathIsLive(p)

\* ------------------------------------------------------- the task parser
\* the values of the enumerations TaskType and TaskPriority
TaskType == {"code_review", "summarize", "fix", "analyze", "documentation", "bug_fix"}
TaskPriority == {"high", "medium", "low"}

\* the keys of type_map of _parse_task_type and of priority_map of
\* _parse_priority
type_map == {"code_review", "summarize", "fix", "analyze"}
priority_map == {"high", "medium", "low"}

\* dict.get(key, default)
GetOr(object, key, default) == IF key \in DOMAIN object THEN object[key] ELSE default

\* the frontmatters of the model: mappings with or without the keys type
\* and priority; "null" is the YAML null, "" the empty string
TypeValues == TaskType \cup {"refactor", "FIX", "", "null"}
PriorityValues == TaskPriority \cup {"urgent", "null"}
Frontmatters ==
    UNION { [keys -> TypeValues \cup PriorityValues] : keys \in SUBSET {"type", "priority"} }

WellTyped(frontmatter) ==
    /\ "type" \in DOMAIN frontmatter => frontmatter["type"] \in TypeValues
    /\ "priority" \in DOMAIN frontmatter => frontmatter["priority"] \in PriorityValues

\* Python's truth value of a string or None
NotEmpty(value) == value \notin {"null", ""}

\* _parse_task_type(type_str): the member of TaskType, or the message of
\* the ValueError it raises
parse_task_type(type_str) ==
    IF ~NotEmpty(type_str) THEN [raised |-> "Task type is required"]
    ELSE IF type_str \notin type_map THEN [raised |-> "Invalid task type"]
    ELSE [value |-> type_str]

\* _parse_priority(priority_str)
parse_priority(priority_str) ==
    IF priority_str \notin priority_map THEN [raised |-> "Invalid priority"]
    ELSE [value |-> priority_str]

Raised(outcome) == "raised" \in DOMAIN outcome

\* validate_task_format on a document with a complete frontmatter that is
\* a mapping: the list of errors
validate_task_format(frontmatter) ==
    LET t == parse_task_type(Get(frontmatter, "type"))
        q == parse_priority(GetOr(frontmatter, "priority", "medium"))
    IN (IF ~NotEmpty(Get(frontmatter, "type"))
        THEN <<"Missing required field: type">> ELSE <<>>)
       \o (IF Raised(t) THEN <<t.raised>> ELSE <<>>)
       \o (IF Raised(q) THEN <<q.raised>> ELSE <<>>)

\* parse_task_file on the same document: the type and priority of the
\* Task, or the ValueError that leaves the function
parse_task_file(frontmatter) ==
    LET t == parse_task_type(Get(frontmatter, "type"))
        q == parse_priority(GetOr(frontmatter, "priority", "medium"))
    IN IF Raised(t) THEN t
       ELSE IF Raised(q) THEN q
       ELSE [type |-> t.value, priority |-> q.value]

\* what the parser does not touch
ParserOnly ==
    UNCHANGED <<running, files, processed_dir, state_json, pending_files,
                inflight_paths, task_queue, active_tasks, task_results,
                task_cancel_events, running_exec_tasks, last_event_ts,
                processed_files, worker, fs_writes, backoff_mult, direct, watch,
                pipe, stopping, creation, results_dir, unit, writers>>

\* a document arrives whose frontmatter is any of Frontmatters
DocumentWritten(frontmatter) ==
    /\ document.pc = "none"
    /\ WellTyped(frontmatter)
    /\ document' = [document EXCEPT !.pc = "written", !.frontmatter = frontmatter]
    /\ ParserOnly

\* errors = self.task_parser.validate_task_format(file_path)
ValidateCall ==
    /\ document.pc = "written"
    /\ document' = [document EXCEPT !.pc = "validated",
                                    !.errors = validate_task_format(document.frontmatter)]
    /\ ParserOnly

\* task = self.task_parser.parse_task_file(file_path)
ParseCall ==
    /\ document.pc = "validated"
    /\ document' = [document EXCEPT !.pc = "parsed",
                                    !.task = parse_task_file(document.frontmatter)]
    /\ ParserOnly

NextParser ==
    \/ \E frontmatter \in Frontmatters : DocumentWritten(frontmatter)
    \/ ValidateCall
    \/ ParseCall

SpecParser == InitRetry /\ [][NextParser]_vars

\* C40: validate_task_format returns no errors for a document whose type
\* is any member of the task-type enumeration (analyze, fix, bug_fix,
\* code_review, summarize, documentation) with a priority of high, medium
\* or low; it returns a non-empty list of errors for a missing or unknown
\* type or an unknown priority; and validate_task_format and
\* parse_task_file accept the same types.
ValidateAcceptsTheEnumeration ==
    LET f == document.frontmatter
        known_type == "type" \in DOMAIN f /\ f["type"] \in TaskType
        known_priority == "priority" \in DOMAIN f /\ f["priority"] \in TaskPriority
        unknown_priority == "priority" \in DOMAIN f /\ f["priority"] \notin TaskPriority
    IN /\ document.pc \in {"validated", "parsed"}
          => /\ known_type /\ known_priority => document.errors = <<>>
             /\ ~known_type \/ unknown_priority => document.errors # <<>>
       /\ document.pc = "parsed" /\ ~unknown_priority
          => (document.errors = <<>> <=> ~Raised(document.task))

====
